---- MODULE Spec2Model ----
(***************************************************************************)
(* canal: schema-declared time-series records rendered to the InfluxDB     *)
(* line protocol.  The model follows canal/datum.py (value formatters),    *)
(* canal/measurement.py and canal/series.py (table encoders backed by a    *)
(* pandas DataFrame) and canal/point.py (single-record encoder).           *)
(*                                                                         *)
(* Text is a sequence of one-character strings, so that escaping, joining  *)
(* and stripping are computed character by character as the code does.     *)
(***************************************************************************)
EXTENDS Integers, Sequences, FiniteSets, TLC

VARIABLES
    classes,    \* the classes created so far: each with its base and its own attributes
    cls,        \* the declared schema class (name, tags_by_attname, fields_by_attname)
    kind,       \* which wrapper the object is: "Measurement", "Series" or "Point"
    data_frame, \* the table's DataFrame: column names and column cells
    attrs,      \* a Point's instance attributes (one value per tag/field)
    _time,      \* a Point's stored timestamp
    out,        \* what the last call returned or raised
    fin,        \* argument of the last formatter call
    fout        \* result of the last formatter call

vars == <<classes, cls, kind, data_frame, attrs, _time, out, fin, fout>>

----------------------------------------------------------------------------
(* Bounds *)

MaxRows == 2        \* rows of a table
MaxLen == 3         \* length of a text handed to a formatter

----------------------------------------------------------------------------
(* Text *)

\* The characters of the model in code-point order (Python compares str by
\* code point).
CodePoints ==
    << "\n", " ", "\"", "%", ",", "-", ".", "0", "1", "2", "3", "4", "5",
       "6", "7", "8", "9", "=", "A", "B", "C", "D", "E", "F", "G", "H",
       "I", "J", "K", "L", "M", "N", "O", "P", "Q", "R", "S", "T", "U",
       "V", "W", "X", "Y", "Z", "\\", "_", "a", "b", "c", "d", "e", "f",
       "g", "h", "i", "j", "k", "l", "m", "n", "o", "p", "q", "r", "s",
       "t", "u", "v", "w", "x", "y", "z" >>

ord(c) == CHOOSE i \in 1..Len(CodePoints) : CodePoints[i] = c

\* a < b for str
RECURSIVE str_lt(_, _)
str_lt(a, b) ==
    IF b = <<>> THEN FALSE
    ELSE IF a = <<>> THEN TRUE
    ELSE IF a[1] = b[1] THEN str_lt(Tail(a), Tail(b))
    ELSE ord(a[1]) < ord(b[1])

\* sep.join(parts)
RECURSIVE join(_, _)
join(sep, parts) ==
    IF parts = <<>> THEN <<>>
    ELSE IF Len(parts) = 1 THEN parts[1]
    ELSE parts[1] \o sep \o join(sep, Tail(parts))

\* s.replace(c, rep) for a one-character pattern c
RECURSIVE replace(_, _, _)
replace(s, c, rep) ==
    IF s = <<>> THEN <<>>
    ELSE (IF s[1] = c THEN rep ELSE <<s[1]>>) \o replace(Tail(s), c, rep)

\* s.rstrip(c)
RECURSIVE rstrip(_, _)
rstrip(s, c) ==
    IF s # <<>> /\ s[Len(s)] = c THEN rstrip(SubSeq(s, 1, Len(s) - 1), c)
    ELSE s

\* s.strip() over the model's only whitespace character
RECURSIVE strip(_)
strip(s) ==
    IF s # <<>> /\ s[1] = " " THEN strip(Tail(s))
    ELSE rstrip(s, " ")

Digit(d) == CodePoints[ord("0") + d]

\* str(n) for an int n >= 0
RECURSIVE str_nat(_)
str_nat(n) ==
    IF n < 10 THEN <<Digit(n)>>
    ELSE str_nat(n \div 10) \o <<Digit(n % 10)>>

\* str(n) for an int
str_int(n) == IF n < 0 THEN <<"-">> \o str_nat(0 - n) ELSE str_nat(n)

IsDigit(c) == c \in {"0", "1", "2", "3", "4", "5", "6", "7", "8", "9"}

\* the value of a text of decimal digits
RECURSIVE parse_nat(_)
parse_nat(s) ==
    IF s = <<>> THEN 0
    ELSE 10 * parse_nat(SubSeq(s, 1, Len(s) - 1)) + (ord(s[Len(s)]) - ord("0"))

----------------------------------------------------------------------------
(* Python values.  One record shape for all of them: t is the type, n the  *)
(* number, s the text.  A float is held in tenths (n = 25 is 2.5); NaN is  *)
(* the float with t = "nan".  A Timestamp holds nanoseconds since epoch.   *)

None == [t |-> "None", n |-> 0, s |-> <<>>]
NaN == [t |-> "nan", n |-> 0, s |-> <<>>]
PyInt(n) == [t |-> "int", n |-> n, s |-> <<>>]
PyFloat(tenths) == [t |-> "float", n |-> tenths, s |-> <<>>]
PyBool(b) == [t |-> "bool", n |-> IF b THEN 1 ELSE 0, s |-> <<>>]
PyStr(s) == [t |-> "str", n |-> 0, s |-> s]
Timestamp(ns) == [t |-> "Timestamp", n |-> ns, s |-> <<>>]

\* what a failed coercion yields
Raise == [t |-> "raise", n |-> 0, s |-> <<>>]

\* str(value)
str(v) ==
    CASE v.t = "None" -> <<"N", "o", "n", "e">>
      [] v.t = "nan" -> <<"n", "a", "n">>
      [] v.t = "int" -> str_int(v.n)
      [] v.t = "float" -> str_nat(v.n \div 10) \o <<".">> \o str_nat(v.n % 10)
      [] v.t = "bool" -> IF v.n = 1 THEN <<"T", "r", "u", "e">>
                         ELSE <<"F", "a", "l", "s", "e">>
      [] OTHER -> v.s

\* a text int() and float() accept: decimal digits, blanks around them allowed
IsNumeral(s) == strip(s) # <<>> /\ \A i \in 1..Len(strip(s)) : IsDigit(strip(s)[i])

\* float(value): a float value, or Raise for ValueError
float(v) ==
    CASE v.t = "nan" -> NaN
      [] v.t = "int" -> PyFloat(10 * v.n)
      [] v.t = "float" -> v
      [] v.t = "bool" -> PyFloat(10 * v.n)
      [] v.t = "str" -> IF IsNumeral(v.s) THEN PyFloat(10 * parse_nat(strip(v.s)))
                        ELSE Raise
      [] OTHER -> Raise

\* int(value): an int value, or Raise for ValueError
int(v) ==
    CASE v.t = "nan" -> Raise
      [] v.t = "int" -> v
      [] v.t = "float" -> PyInt(v.n \div 10)
      [] v.t = "bool" -> PyInt(v.n)
      [] v.t = "str" -> IF IsNumeral(v.s) THEN PyInt(parse_nat(strip(v.s)))
                        ELSE Raise
      [] OTHER -> Raise

\* bool(value)
bool(v) ==
    CASE v.t = "None" -> FALSE
      [] v.t = "nan" -> TRUE
      [] v.t = "int" -> v.n # 0
      [] v.t = "float" -> v.n # 0
      [] v.t = "bool" -> v.n = 1
      [] v.t = "str" -> v.s # <<>>
      [] OTHER -> TRUE

----------------------------------------------------------------------------
(* canal/datum.py *)

\* db_name of a datum declared without one
NoDbName == <<"<None>">>

\* what a formatter yields when the coercion raises ValueError
ValueError == <<"<ValueError>">>

\* Datum.__init__ (and the name the metaclass gives the datum)
Datum(class, name, required, db_name) ==
    [class |-> class, name |-> name, required |-> required, db_name |-> db_name]

\* a faulty variant: the equals sign is left as it is
Tag_format_no_equals(value) ==
    replace(replace(str(value), " ", <<"\\", " ">>), ",", <<"\\", ",">>)

Tag_format(value) ==
    replace(replace(replace(str(value), " ", <<"\\", " ">>),
                    ",", <<"\\", ",">>),
            "=", <<"\\", "=">>)

\* a faulty variant: the value is written without being coerced
FloatField_format_unchecked(value) == str(value)

FloatField_format(value) ==
    IF float(value) = Raise THEN ValueError ELSE str(float(value))

\* a faulty variant: the integer marker is left out
IntegerField_format_no_marker(value) ==
    IF int(value) = Raise THEN ValueError ELSE str(int(value))

IntegerField_format(value) ==
    IF int(value) = Raise THEN ValueError ELSE str(int(value)) \o <<"i">>

BooleanField_format(value) == str(PyBool(bool(value)))

\* a faulty variant: the double quotes of the value are left as they are
StringField_format_no_escape(value) ==
    <<"\"">> \o str(value) \o <<"\"">>

StringField_format(value) ==
    <<"\"">> \o replace(str(value), "\"", <<"\\", "\"">>) \o <<"\"">>

\* datum.format(value), dispatched on the datum's class
format(datum, value) ==
    CASE datum.class = "Tag" -> Tag_format(value)
      [] datum.class = "FloatField" -> FloatField_format(value)
      [] datum.class = "IntegerField" -> IntegerField_format(value)
      [] datum.class = "BooleanField" -> BooleanField_format(value)
      [] OTHER -> StringField_format(value)

----------------------------------------------------------------------------
(* Schema declaration: MeasurementMeta / PointMeta.  A mapping by attname  *)
(* (an OrderedDict) is the sequence of its datums, each carrying its key   *)
(* in .name.                                                               *)

keys(d) == [i \in 1..Len(d) |-> d[i].name]

has_key(d, key) == \E i \in 1..Len(d) : d[i].name = key

\* d.get(key, default)
get(d, key, default) ==
    IF has_key(d, key)
    THEN d[CHOOSE i \in 1..Len(d) : d[i].name = key]
    ELSE default

\* sorted(names)
RECURSIVE insert_sorted(_, _)
insert_sorted(x, s) ==
    IF s = <<>> THEN <<x>>
    ELSE IF str_lt(x, s[1]) THEN <<x>> \o s
    ELSE <<s[1]>> \o insert_sorted(x, Tail(s))

\* a faulty variant: the names are left in the order of declaration
unsorted(s) == s

RECURSIVE sorted(_)
sorted(s) ==
    IF s = <<>> THEN <<>>
    ELSE insert_sorted(s[Len(s)], sorted(SubSeq(s, 1, Len(s) - 1)))

\* the keys of OrderedDict(pairs): a repeated key keeps its first position
RECURSIVE distinct_keys(_)
distinct_keys(s) ==
    IF s = <<>> THEN <<>>
    ELSE LET rest == distinct_keys(SubSeq(s, 1, Len(s) - 1))
         IN IF \E i \in 1..Len(rest) : rest[i] = s[Len(s)] THEN rest
            ELSE Append(rest, s[Len(s)])

\* the attributes of a class body that are instances of the given classes
RECURSIVE select_attrs(_, _)
select_attrs(body, instances_of) ==
    IF body = <<>> THEN <<>>
    ELSE (IF body[1].class \in instances_of THEN <<body[1]>> ELSE <<>>)
         \o select_attrs(Tail(body), instances_of)

FieldClasses == {"FloatField", "IntegerField", "BooleanField", "StringField"}

_register_tags(base_tags, tags) ==
    LET ks == distinct_keys(sorted(keys(base_tags) \o keys(tags)))
    IN [i \in 1..Len(ks) |-> get(base_tags, ks[i], get(tags, ks[i], None))]

_register_fields(base_fields, fields) ==
    LET ks == distinct_keys(sorted(keys(base_fields) \o keys(fields)))
    IN [i \in 1..Len(ks) |-> get(base_fields, ks[i], get(fields, ks[i], None))]

\* the mappings a class finds when it has no base that holds any (the
\* AttributeError branches of _register_tags and _register_fields)
NoBase == [tags_by_attname |-> <<>>, fields_by_attname |-> <<>>]

\* MeasurementMeta.__new__ / PointMeta.__new__: the class made from a class
\* body, with the mappings registered over those of its base; measurement is
\* the name of the class given to register_measurement
subclass(base, name, measurement, body) ==
    [name |-> name,
     measurement |-> measurement,
     tags_by_attname |->
        _register_tags(base.tags_by_attname, select_attrs(body, {"Tag"})),
     fields_by_attname |->
        _register_fields(base.fields_by_attname, select_attrs(body, FieldClasses))]

\* a class derived directly from Measurement, Series or Point (whose own
\* mappings are empty)
new_class(name, measurement, body) == subclass(NoBase, name, measurement, body)

----------------------------------------------------------------------------
(* The pandas DataFrame behind Measurement and Series *)

Numbers == {"int", "float", "nan"}

types(col) == {col[i].t : i \in 1..Len(col)}

\* The dtype pandas infers for a column built from a list: a list of numbers
\* and None with a float, a NaN or a None in it becomes float64 (None turns
\* into NaN), a list of None only or with any text or bool in it stays a
\* column of objects.
sanitize(col) ==
    IF types(col) \subseteq (Numbers \cup {"None"})
       /\ types(col) \cap Numbers # {}
       /\ types(col) # {"int"}
    THEN [i \in 1..Len(col) |->
            IF col[i].t = "None" THEN NaN ELSE float(col[i])]
    ELSE col

\* pd.DataFrame.from_items(items); an item is <<name, list>>
from_items(items) ==
    [columns |-> [i \in 1..Len(items) |-> items[i][1]],
     data |-> [i \in 1..Len(items) |-> sanitize(items[i][2])]]

\* data_frame[name]
column(df, name) ==
    df.data[CHOOSE c \in 1..Len(df.columns) : df.columns[c] = name]

\* len(data_frame)
len(df) == Len(df.data[1])

\* a faulty variant: every tuple is the first row
first_row(df, i) == [c \in 1..Len(df.data) |-> df.data[c][1]]

\* one tuple of data_frame.itertuples(index=False)
row(df, i) == [c \in 1..Len(df.data) |-> df.data[c][i]]

\* a faulty variant: only None counts as null
any_is_None(col) == \E i \in 1..Len(col) : col[i].t = "None"

\* a faulty variant: .all() in place of .any()
all_isnull(col) == \A i \in 1..Len(col) : col[i].t \in {"None", "nan"}

\* series.isnull().values.any()
any_isnull(col) == \E i \in 1..Len(col) : col[i].t \in {"None", "nan"}

\* np.array(time, dtype='datetime64[ns]') of a list of nanosecond instants
datetime64(time) == [i \in 1..Len(time) |-> Timestamp(time[i])]

\* a list argument
PyList(items) == [t |-> "list", n |-> 0, s |-> items]

\* a scalar item of from_items is repeated for every row
broadcast(value, n) == [i \in 1..n |-> value]

time_name == <<"t", "i", "m", "e">>

\* Measurement.__init__ / Series.__init__: kwargs maps every attname to the
\* list passed for it (a list of None when the keyword was not passed), time
\* is None or a list of instants
Table__init__(class, time, kwargs) ==
    LET tags == class.tags_by_attname
        fields == class.fields_by_attname
        n == Len(kwargs[fields[1].name])
    IN from_items(
        [i \in 1..Len(tags) |-> <<tags[i].name, kwargs[tags[i].name]>>]
        \o [i \in 1..Len(fields) |-> <<fields[i].name, kwargs[fields[i].name]>>]
        \o << <<time_name, IF time # None THEN datetime64(time.s)
                           ELSE broadcast(None, n)>> >>)

\* Measurement.to_line_protocol / Series.to_line_protocol
Result(status, text, name) == [status |-> status, text |-> text, name |-> name]

NoResult == Result("none", <<>>, <<>>)

\* the first required datum, in mapping order, with a null in its column
RECURSIVE first_missing(_, _)
first_missing(datums, df) ==
    IF datums = <<>> THEN <<>>
    ELSE IF datums[1].required /\ any_isnull(column(df, datums[1].name))
         THEN datums[1].name
         ELSE first_missing(Tail(datums), df)

\* "{name}=%s".format(name=attname)
prototype(attname) == attname \o <<"=", "%", "s">>

\* prototype % text
percent(proto, text) == SubSeq(proto, 1, Len(proto) - 2) \o text

\* a faulty variant: nothing is filtered out
is_anything(item) == TRUE

\* item is not None: the filter of the row comprehensions
is_not_None(item) == item # None

\* [prototype % datum.format(item) for datum, prototype, item in zip(...)
\*  if item is not None]
RECURSIVE entries(_, _, _)
entries(datums, prototypes, items) ==
    IF datums = <<>> \/ prototypes = <<>> \/ items = <<>> THEN <<>>
    ELSE (IF is_not_None(items[1])
          THEN << IF format(datums[1], items[1]) = ValueError THEN ValueError
                  ELSE percent(prototypes[1], format(datums[1], items[1])) >>
          ELSE <<>>)
         \o entries(Tail(datums), Tail(prototypes), Tail(items))

\* str(row.time.value) if row.time else ""
time_token(time) == IF time # None THEN str_int(time.n) ELSE <<>>

\* one element of the list joined by "\n"
line(measurement_name, tags, tags_prototype, fields, fields_prototype, r) ==
    LET num_tags == Len(tags)
    IN join(<<" ">>,
            << join(<<",">>, <<measurement_name>>
                    \o entries(tags, tags_prototype, SubSeq(r, 1, num_tags))),
               join(<<",">>,
                    entries(fields, fields_prototype, SubSeq(r, num_tags + 1, Len(r)))),
               time_token(r[Len(r)]) >>)

\* formatting the row raises: one of its values cannot be coerced
raises(tags, tags_prototype, fields, fields_prototype, r) ==
    LET es == entries(tags, tags_prototype, SubSeq(r, 1, Len(tags)))
              \o entries(fields, fields_prototype, SubSeq(r, Len(tags) + 1, Len(r)))
    IN \E k \in 1..Len(es) : es[k] = ValueError

to_line_protocol(measurement_name, class, df) ==
    LET tags == class.tags_by_attname
        fields == class.fields_by_attname
        tags_prototype == [i \in 1..Len(tags) |-> prototype(tags[i].name)]
        fields_prototype == [i \in 1..Len(fields) |-> prototype(fields[i].name)]
    IN IF first_missing(tags, df) # <<>>
       THEN Result("MissingTagError", <<>>, first_missing(tags, df))
       ELSE IF first_missing(fields, df) # <<>>
       THEN Result("MissingFieldError", <<>>, first_missing(fields, df))
       ELSE IF \E i \in 1..len(df) :
                  raises(tags, tags_prototype, fields, fields_prototype, row(df, i))
       THEN Result("ValueError", <<>>, <<>>)
       ELSE Result("ok",
                   join(<<"\n">>,
                        [i \in 1..len(df) |->
                            line(measurement_name, tags, tags_prototype,
                                 fields, fields_prototype, row(df, i))]),
                   <<>>)

----------------------------------------------------------------------------
(* canal/point.py *)

\* a faulty variant: the fields, then the tags
fields_then_tags(class) == class.fields_by_attname \o class.tags_by_attname

\* PointMeta.tags_and_fields (the same property is on MeasurementMeta)
tags_and_fields(class) ==
    LET ks == distinct_keys(sorted(keys(class.fields_by_attname)
                                   \o keys(class.tags_by_attname)))
    IN [i \in 1..Len(ks) |->
            get(class.fields_by_attname, ks[i],
                get(class.tags_by_attname, ks[i], None))]

\* a datetime, held as its microseconds since Point.EPOCH
PyDatetime(us) == [t |-> "datetime", n |-> us, s |-> <<>>]

\* timedelta(microseconds=time/1000): the quotient rounded to the nearest
\* microsecond, a half to the even one
timedelta_microseconds(time) ==
    LET q == time \div 1000
        r == time % 1000
    IN IF r < 500 THEN q
       ELSE IF r > 500 THEN q + 1
       ELSE IF q % 2 = 0 THEN q ELSE q + 1

\* an exception raised where a value was expected
RaiseError(name) == [t |-> "raise", n |-> 0, s |-> <<name>>]

\* canal/util.py ----------------------------------------------------------

IsLeap(year) == year % 4 = 0 /\ (year % 100 # 0 \/ year % 400 = 0)

days_in_month(year, month) ==
    IF month = 2 THEN (IF IsLeap(year) THEN 29 ELSE 28)
    ELSE IF month \in {4, 6, 9, 11} THEN 30 ELSE 31

\* the days of the months of the year before the month
RECURSIVE days_before_month(_, _)
days_before_month(year, month) ==
    IF month = 1 THEN 0
    ELSE days_before_month(year, month - 1) + days_in_month(year, month - 1)

\* the days of the years before the year
days_before_year(year) ==
    365 * (year - 1) + ((year - 1) \div 4) - ((year - 1) \div 100)
        + ((year - 1) \div 400)

\* the day number of a date, 1 for 0001-01-01
ordinal(year, month, day) ==
    days_before_year(year) + days_before_month(year, month) + day

\* datetime.datetime(..., tzinfo=pytz.UTC): ValueError for a component out
\* of its range, else the instant in microseconds since Point.EPOCH
datetime(year, month, day, hour, minute, second, microsecond) ==
    IF \/ year < 1
       \/ month < 1 \/ month > 12
       \/ day < 1 \/ day > days_in_month(year, IF month \in 1..12 THEN month ELSE 1)
       \/ hour > 23 \/ minute > 59 \/ second > 59
    THEN RaiseError("ValueError")
    ELSE PyDatetime(
            ((((ordinal(year, month, day) - ordinal(1970, 1, 1)) * 24 + hour) * 60
                + minute) * 60 + second) * 1000000 + microsecond)

\* the characters of _influx_time_format from first to last are digits
digits_at(string, first, last) == \A p \in first..last : IsDigit(string[p])

\* _influx_time_format.match(string): the pattern is matched at the start
\* of the string and need not reach its end; its "." is any character but
\* a newline
_influx_time_format(string) ==
    /\ Len(string) >= 30
    /\ digits_at(string, 1, 4) /\ string[5] = "-"
    /\ digits_at(string, 6, 7) /\ string[8] = "-"
    /\ digits_at(string, 9, 10) /\ string[11] = "T"
    /\ digits_at(string, 12, 13) /\ string[14] = ":"
    /\ digits_at(string, 15, 16) /\ string[17] = ":"
    /\ digits_at(string, 18, 19) /\ string[20] # "\n"
    /\ digits_at(string, 21, 29) /\ string[30] = "Z"

\* int(match.group(...))
group(string, first, last) == parse_nat(SubSeq(string, first, last))

datetime_from_influx_time(string) ==
    IF _influx_time_format(string)
    THEN datetime(group(string, 1, 4), group(string, 6, 7),
                  group(string, 9, 10), group(string, 12, 13),
                  group(string, 15, 16), group(string, 18, 19),
                  group(string, 21, 29) \div 1000)
    ELSE RaiseError("ValueError")

\* canal/point.py, continued -----------------------------------------------

\* a faulty variant: a time of another type is stored as no time
time_setter_other_as_None(time) ==
    CASE time.t = "datetime" -> time
      [] time.t \in {"int", "bool"} -> PyDatetime(timedelta_microseconds(time.n))
      [] time.t = "str" -> datetime_from_influx_time(time.s)
      [] OTHER -> None

\* Point.time setter: the value stored in _time, or the exception raised.
\* A datetime is moved to UTC, which is the same instant; a bool is an
\* instance of int
time_setter(time) ==
    CASE time.t = "datetime" -> time
      [] time.t \in {"int", "bool"} -> PyDatetime(timedelta_microseconds(time.n))
      [] time.t = "str" -> datetime_from_influx_time(time.s)
      [] time.t = "None" -> None
      [] OTHER -> RaiseError("TypeError")

\* Microsecond counts below 249 for which the double product
\* total_seconds() * 10 ** 9 falls just short of the whole number
ShortProducts == {65, 129, 130}

\* int((self.time - self.EPOCH).total_seconds() * 10 ** 9), for a time less
\* than 249 microseconds after EPOCH
total_nanoseconds(time) ==
    IF time.n \in ShortProducts THEN 1000 * time.n - 1 ELSE 1000 * time.n

\* The tag loop and the field loop of Point.to_line_protocol: line_protocol
\* grows by one "name=value," per present datum; error is the exception of
\* a missing required datum
RECURSIVE add_data(_, _, _, _)
add_data(datums, values, line_protocol, error) ==
    IF datums = <<>> THEN Result("ok", line_protocol, <<>>)
    ELSE LET attname == datums[1].name
             value == values[attname]
         IN IF value # None
            THEN IF format(datums[1], value) = ValueError
                 THEN Result("ValueError", <<>>, <<>>)
                 ELSE add_data(Tail(datums), values,
                               line_protocol \o attname \o <<"=">>
                                   \o format(datums[1], value) \o <<",">>,
                               error)
            ELSE IF datums[1].required
                 THEN Result(error, <<>>, attname)
                 ELSE add_data(Tail(datums), values, line_protocol, error)

Point_to_line_protocol(class, values, time) ==
    LET with_tags == add_data(class.tags_by_attname, values,
                              class.measurement \o <<",">>, "MissingTagError")
        with_fields == add_data(class.fields_by_attname, values,
                                rstrip(with_tags.text, ",") \o <<" ">>,
                                "MissingFieldError")
    IN IF with_tags.status # "ok" THEN with_tags
       ELSE IF with_fields.status # "ok" THEN with_fields
       ELSE Result("ok",
                   rstrip(with_fields.text, ",")
                       \o (IF time # None
                           THEN <<" ">> \o str_int(total_nanoseconds(time))
                           ELSE <<>>),
                   <<>>)

----------------------------------------------------------------------------
(* The classes, their bases and their attributes *)

\* the classes from class i along its bases (the order of attribute lookup)
RECURSIVE mro(_, _)
mro(registry, i) ==
    IF i = 0 THEN <<>> ELSE <<i>> \o mro(registry, registry[i].base)

\* a faulty variant: the name is looked up as it is stored by an assignment
\* within the metaclass
hasattr_mangled(registry, i, name) ==
    \E k \in 1..Len(mro(registry, i)) :
        \E a \in registry[mro(registry, i)[k]].attributes :
            a[1] \in {<<"_", "P", "o", "i", "n", "t", "M", "e", "t", "a">> \o name, <<"_", "M", "e", "a", "s", "u", "r", "e", "m", "e", "n", "t", "M", "e", "t", "a">> \o name}

\* hasattr(cls, name)
hasattr(registry, i, name) ==
    \E k \in 1..Len(mro(registry, i)) :
        \E a \in registry[mro(registry, i)[k]].attributes : a[1] = name

\* getattr(cls, name) for an attribute that the class or a base has
getattr(registry, i, name) ==
    LET holders == {k \in 1..Len(mro(registry, i)) :
                        \E a \in registry[mro(registry, i)[k]].attributes :
                            a[1] = name}
        first == CHOOSE k \in holders : \A l \in holders : k <= l
    IN (CHOOSE a \in registry[mro(registry, i)[first]].attributes : a[1] = name)[2]

\* setattr(cls, name, value)
setattr(registry, i, name, value) ==
    [registry EXCEPT ![i].attributes =
        {a \in @ : a[1] # name} \cup {<<name, value>>}]

\* the name under which `cls.__tags_and_fields = ...` in the body of a
\* metaclass stores the attribute: SeriesMeta inherits the property of
\* PointMeta
private(k) ==
    IF k = "Measurement" THEN <<"_", "M", "e", "a", "s", "u", "r", "e", "m", "e", "n", "t", "M", "e", "t", "a", "_", "_", "t", "a", "g", "s", "_", "a", "n", "d", "_", "f", "i", "e", "l", "d", "s">>
    ELSE <<"_", "P", "o", "i", "n", "t", "M", "e", "t", "a", "_", "_", "t", "a", "g", "s", "_", "a", "n", "d", "_", "f", "i", "e", "l", "d", "s">>

\* the property tags_and_fields read on class i: the value returned and the
\* classes afterwards
get_tags_and_fields(registry, i, k) ==
    LET after == IF ~hasattr(registry, i, <<"_", "_", "t", "a", "g", "s", "_", "a", "n", "d", "_", "f", "i", "e", "l", "d", "s">>)
                 THEN setattr(registry, i, private(k),
                              tags_and_fields(registry[i].class))
                 ELSE registry
    IN [value |-> getattr(after, i, private(k)), classes |-> after]

\* the mappings of the base of a new class
base_of(registry, base) == IF base = 0 THEN NoBase ELSE registry[base].class

\* a faulty variant: the merged mappings are stored on the base as well
__new___shared(registry, base, name, measurement, body, k) ==
    LET new == subclass(base_of(registry, base), name, measurement, body)
        made == Append(IF base = 0 THEN registry
                       ELSE [registry EXCEPT
                                ![base].class.tags_by_attname = new.tags_by_attname,
                                ![base].class.fields_by_attname = new.fields_by_attname],
                       [class |-> new, base |-> base, body |-> body,
                        attributes |-> {}])
    IN IF k \in {"Measurement", "Series"}
       THEN get_tags_and_fields(made, Len(made), k).classes
       ELSE made

\* MeasurementMeta.__new__, SeriesMeta.__new__, PointMeta.__new__: the
\* classes after `class name(base): body`; the metaclasses of the tables
\* read tags_and_fields to bind the properties
__new__(registry, base, name, measurement, body, k) ==
    LET made == Append(registry,
                       [class |-> subclass(base_of(registry, base), name,
                                           measurement, body),
                        base |-> base,
                        body |-> body,
                        attributes |-> {}])
    IN IF k \in {"Measurement", "Series"}
       THEN get_tags_and_fields(made, Len(made), k).classes
       ELSE made

\* class Measurement, class Series, class Point
Root(k) ==
    __new__(<<>>, 0,
            CASE k = "Measurement" -> <<"M", "e", "a", "s", "u", "r", "e", "m", "e", "n", "t">>
              [] k = "Series" -> <<"S", "e", "r", "i", "e", "s">>
              [] OTHER -> <<"P", "o", "i", "n", "t">>,
            <<>>, <<>>, k)

\* the classes when one class is derived from the root and, for a Point, an
\* object of it is constructed (Point.__init__ reads tags_and_fields)
declared(class, k) ==
    LET made == Append(Root(k),
                       [class |-> class, base |-> 1,
                        body |-> class.tags_by_attname \o class.fields_by_attname,
                        attributes |-> {}])
    IN get_tags_and_fields(made, 2, k).classes

----------------------------------------------------------------------------
(* The declared classes and the values of the model *)

\* class Measurement: int_field = IntegerField(); float_field = FloatField();
\* tag1 = Tag()
BodyA ==
    << Datum("IntegerField", <<"i", "n", "t", "_", "f", "i", "e", "l", "d">>, FALSE, NoDbName),
       Datum("FloatField", <<"f", "l", "o", "a", "t", "_", "f", "i", "e", "l", "d">>, FALSE, NoDbName),
       Datum("Tag", <<"t", "a", "g", "1">>, FALSE, NoDbName) >>

\* class R: req = IntegerField(required=True); opt = FloatField();
\* rtag = Tag(required=True)
BodyR ==
    << Datum("IntegerField", <<"r", "e", "q">>, TRUE, NoDbName),
       Datum("FloatField", <<"o", "p", "t">>, FALSE, NoDbName),
       Datum("Tag", <<"r", "t", "a", "g">>, TRUE, NoDbName) >>

\* class S: t2 = Tag(); t1 = Tag(db_name="bar");
\* s = StringField(db_name="foo"); b = BooleanField()
BodyS ==
    << Datum("Tag", <<"t", "2">>, FALSE, NoDbName),
       Datum("Tag", <<"t", "1">>, FALSE, <<"b", "a", "r">>),
       Datum("StringField", <<"s">>, FALSE, <<"f", "o", "o">>),
       Datum("BooleanField", <<"b">>, FALSE, NoDbName) >>

Declarations ==
    { [name |-> <<"M", "e", "a", "s", "u", "r", "e", "m", "e", "n", "t">>, body |-> BodyA],
      [name |-> <<"R">>, body |-> BodyR],
      [name |-> <<"S">>, body |-> BodyS] }

\* the name of a Series or Point class, which is not its measurement's name
WrapperName == <<"P">>

\* the values a caller passes for a datum
Inputs(datum) ==
    CASE datum.class = "Tag" -> {None, PyStr(<<"a", " ", "b">>)}
      [] datum.class = "IntegerField" -> {None, PyInt(3), PyStr(<<"x">>)}
      [] datum.class = "FloatField" -> {None, NaN, PyFloat(25)}
      [] datum.class = "StringField" -> {None, PyStr(<<"q", "\"">>)}
      [] OTHER -> {None, PyBool(TRUE)}

\* every tuple of values, one per datum
RECURSIVE all_rows(_)
all_rows(datums) ==
    IF datums = <<>> THEN {<<>>}
    ELSE {<<v>> \o r : v \in Inputs(datums[1]), r \in all_rows(Tail(datums))}

\* the datums of a class, tags first
datums_of(class) == class.tags_by_attname \o class.fields_by_attname

\* the keyword arguments that pass rows[i] as row i
kwargs_of(class, rows) ==
    [name \in {datums_of(class)[c].name : c \in 1..Len(datums_of(class))} |->
        [i \in 1..Len(rows) |->
            rows[i][CHOOSE c \in 1..Len(datums_of(class)) :
                        datums_of(class)[c].name = name]]]

\* the time argument of a table of n rows: None or one instant per row (a
\* table has a timestamp in every row or in none)
TimeLists(n) == {None, PyList([i \in 1..n |-> 1500 * i])}

\* the time argument of a Point
PointTimes == {None, PyInt(0), PyInt(1500), PyInt(65000)}

EmptyFrame == [columns |-> <<>>, data |-> <<>>]

----------------------------------------------------------------------------
(* The objects and their operations *)

\* self.data_frame[name] = value
_set_column(df, name, value) ==
    [df EXCEPT !.data =
        [c \in 1..Len(df.columns) |->
            IF df.columns[c] = name THEN sanitize(value) ELSE df.data[c]]]

IsTable == kind \in {"Measurement", "Series"}

\* A class is declared and one object of it is constructed
Init ==
    /\ \E d \in Declarations, k \in {"Measurement", "Series", "Point"} :
        /\ kind = k
        /\ cls = new_class(IF k = "Measurement" THEN d.name ELSE WrapperName,
                           d.name, d.body)
    /\ \/ /\ IsTable
          /\ \E n \in 1..MaxRows :
             \E rows \in [1..n -> all_rows(datums_of(cls))], time \in TimeLists(n) :
                data_frame = Table__init__(cls, time, kwargs_of(cls, rows))
          /\ attrs = <<>>
          /\ _time = None
       \/ /\ kind = "Point"
          /\ data_frame = EmptyFrame
          /\ \E r \in all_rows(tags_and_fields(cls)) :
                attrs = [name \in {tags_and_fields(cls)[c].name :
                                      c \in 1..Len(tags_and_fields(cls))} |->
                            r[CHOOSE c \in 1..Len(tags_and_fields(cls)) :
                                tags_and_fields(cls)[c].name = name]]
          /\ \E time \in PointTimes : _time = time_setter(time)
    /\ out = NoResult
    /\ fin = None
    /\ classes = declared(cls, kind)
    /\ fout = <<>>

\* Measurement.to_line_protocol
MeasurementToLineProtocol ==
    /\ kind = "Measurement"
    /\ out' = to_line_protocol(cls.name, cls, data_frame)
    /\ UNCHANGED <<classes, cls, kind, data_frame, attrs, _time, fin, fout>>

\* Series.to_line_protocol
SeriesToLineProtocol ==
    /\ kind = "Series"
    /\ out' = to_line_protocol(cls.measurement, cls, data_frame)
    /\ UNCHANGED <<classes, cls, kind, data_frame, attrs, _time, fin, fout>>

\* Point.to_line_protocol
PointToLineProtocol ==
    /\ kind = "Point"
    /\ out' = Point_to_line_protocol(cls, attrs, _time)
    /\ UNCHANGED <<classes, cls, kind, data_frame, attrs, _time, fin, fout>>

\* The property setter of a tag or field of a table, given one value for
\* all rows
SetColumn ==
    /\ IsTable
    /\ \E c \in 1..Len(datums_of(cls)) :
       \E value \in Inputs(datums_of(cls)[c]) :
            data_frame' = _set_column(data_frame, datums_of(cls)[c].name,
                                      broadcast(value, len(data_frame)))
    /\ out' = NoResult
    /\ UNCHANGED <<classes, cls, kind, attrs, _time, fin, fout>>

\* The time setter of a table
SetTimeColumn ==
    /\ IsTable
    /\ \E time \in TimeLists(len(data_frame)) :
            data_frame' = _set_column(data_frame, time_name,
                                      IF time # None THEN datetime64(time.s)
                                      ELSE broadcast(None, len(data_frame)))
    /\ out' = NoResult
    /\ UNCHANGED <<classes, cls, kind, attrs, _time, fin, fout>>

\* setattr(point, name, value) for a tag or field
PointSetAttr ==
    /\ kind = "Point"
    /\ \E c \in 1..Len(tags_and_fields(cls)) :
       \E value \in Inputs(tags_and_fields(cls)[c]) :
            attrs' = [attrs EXCEPT ![tags_and_fields(cls)[c].name] = value]
    /\ out' = NoResult
    /\ UNCHANGED <<classes, cls, kind, data_frame, _time, fin, fout>>

\* The time setter of a Point
PointSetTime ==
    /\ kind = "Point"
    /\ \E time \in PointTimes : _time' = time_setter(time)
    /\ out' = NoResult
    /\ UNCHANGED <<classes, cls, kind, data_frame, attrs, fin, fout>>

Next ==
    \/ MeasurementToLineProtocol
    \/ SeriesToLineProtocol
    \/ PointToLineProtocol
    \/ SetColumn
    \/ SetTimeColumn
    \/ PointSetAttr
    \/ PointSetTime

Spec == Init /\ [][Next]_vars

----------------------------------------------------------------------------
(* The formatters applied on their own *)

FormatChars == {"a", " ", ",", "=", "\\", "\""}

\* every text of at most n characters of FormatChars
RECURSIVE Texts(_)
Texts(n) ==
    IF n = 0 THEN {<<>>}
    ELSE Texts(n - 1) \cup {Append(x, c) : x \in {y \in Texts(n - 1) : Len(y) = n - 1},
                                          c \in FormatChars}

\* the ints given to IntegerField().format
MaxInt == 12

\* the values of its own kind given to a datum's format
FormatInputs(class) ==
    CASE class = "IntegerField" -> {PyInt(n) : n \in (0 - MaxInt)..MaxInt}
      [] class = "BooleanField" -> {PyBool(b) : b \in BOOLEAN}
      [] OTHER -> {PyStr(x) : x \in Texts(MaxLen)}

\* fout before format has returned
NoOutput == <<"<no output>">>

\* A datum of one of the classes and the value its format is about to be
\* called with
InitFmt ==
    /\ cls = new_class(WrapperName, WrapperName, <<>>)
    /\ kind \in {"Tag", "IntegerField", "BooleanField", "StringField"}
    /\ data_frame = EmptyFrame
    /\ attrs = <<>>
    /\ _time = None
    /\ out = NoResult
    /\ fin \in FormatInputs(kind)
    /\ classes = <<>>
    /\ fout = NoOutput

\* Tag().format(value)
FormatTag ==
    /\ kind = "Tag"
    /\ fout = NoOutput
    /\ fout' = Tag_format(fin)
    /\ UNCHANGED <<classes, cls, kind, data_frame, attrs, _time, out, fin>>

\* IntegerField().format(value)
FormatInteger ==
    /\ kind = "IntegerField"
    /\ fout = NoOutput
    /\ fout' = IntegerField_format(fin)
    /\ UNCHANGED <<classes, cls, kind, data_frame, attrs, _time, out, fin>>

\* BooleanField().format(value)
FormatBoolean ==
    /\ kind = "BooleanField"
    /\ fout = NoOutput
    /\ fout' = BooleanField_format(fin)
    /\ UNCHANGED <<classes, cls, kind, data_frame, attrs, _time, out, fin>>

\* StringField().format(value)
FormatString ==
    /\ kind = "StringField"
    /\ fout = NoOutput
    /\ fout' = StringField_format(fin)
    /\ UNCHANGED <<classes, cls, kind, data_frame, attrs, _time, out, fin>>

NextFmt ==
    \/ FormatTag
    \/ FormatInteger
    \/ FormatBoolean
    \/ FormatString

SpecFmt == InitFmt /\ [][NextFmt]_vars

----------------------------------------------------------------------------
(* The time of a Point, set from every form of argument *)

\* the instants go up to this many microseconds after EPOCH
MaxMicros == 3

\* nanoseconds since EPOCH: every quarter of a microsecond up to MaxMicros,
\* and the whole microseconds of ShortProducts
Instants ==
    {250 * k : k \in 0..(4 * MaxMicros)} \cup {1000 * u : u \in ShortProducts}

\* the text with zeros put before it up to the width
RECURSIVE pad(_, _)
pad(text, width) ==
    IF Len(text) >= width THEN text ELSE pad(<<"0">> \o text, width)

\* the instant written as InfluxDB writes it, with nine fractional digits
IsoText(ns) ==
    <<"1", "9", "7", "0", "-", "0", "1", "-", "0", "1", "T",
      "0", "0", ":", "0", "0", ":", "0", "0", ".">>
        \o pad(str_nat(ns), 9) \o <<"Z">>

\* a text of the instant 1600 in which one character is another one
OneCharChanged ==
    {[IsoText(1600) EXCEPT ![p] = "x"] : p \in 1..30}
        \cup {[IsoText(1600) EXCEPT ![20] = "\n"]}

\* other texts that are not the nine-digit shape
OtherTexts ==
    { <<>>,
      <<"n", "o", "t", " ", "a", " ", "t", "i", "m", "e">>,
      IsoText(1600) \o <<"!">>,
      <<" ">> \o IsoText(1600),
      SubSeq(IsoText(1600), 1, 29),
      SubSeq(IsoText(1600), 1, 28) \o <<"Z">>,
      SubSeq(IsoText(1600), 1, 29) \o <<"0", "Z">>,
      [IsoText(1600) EXCEPT ![6] = "1", ![7] = "3"] }

\* the time arguments: None, the three forms of an instant (a datetime has
\* whole microseconds only), malformed texts, and values of other types
TimeInputs ==
    {None, PyBool(TRUE), PyFloat(12), PyList(<<>>)}
        \cup {PyInt(ns) : ns \in Instants}
        \cup {PyStr(IsoText(ns)) : ns \in Instants}
        \cup {PyDatetime(ns \div 1000) : ns \in {x \in Instants : x % 1000 = 0}}
        \cup {PyStr(x) : x \in OneCharChanged \cup OtherTexts}

BodyT ==
    << Datum("IntegerField", <<"t", "e", "s", "t", "_", "f", "i", "e", "l", "d">>,
             FALSE, NoDbName) >>

\* Point(time=time, test_field=value) of a class with one field; no Point
\* exists when the time setter raises
InitTime ==
    /\ kind = "Point"
    /\ cls = new_class(WrapperName, <<"T">>, BodyT)
    /\ data_frame = EmptyFrame
    /\ \E value \in Inputs(BodyT[1]) : attrs = [name \in {BodyT[1].name} |-> value]
    /\ \E time \in TimeInputs :
        /\ time_setter(time).t # "raise"
        /\ fin = time
        /\ _time = time_setter(time)
    /\ out = NoResult
    /\ classes = declared(cls, kind)
    /\ fout = <<>>

\* point.time = time: an exception leaves _time as it was
PointSetAnyTime ==
    /\ kind = "Point"
    /\ \E time \in TimeInputs :
       LET stored == time_setter(time)
       IN /\ fin' = time
          /\ IF stored.t = "raise"
             THEN /\ _time' = _time
                  /\ out' = Result(stored.s[1], <<>>, <<>>)
             ELSE /\ _time' = stored
                  /\ out' = NoResult
    /\ UNCHANGED <<classes, cls, kind, data_frame, attrs, fout>>

NextTime ==
    \/ PointSetAnyTime
    \/ PointToLineProtocol

SpecTime == InitTime /\ [][NextTime]_vars

----------------------------------------------------------------------------
(* Objects that hold texts which are not numbers *)

\* an optional float field that sorts before a required integer field
BodyQ ==
    << Datum("Tag", <<"t">>, TRUE, NoDbName),
       Datum("IntegerField", <<"m">>, TRUE, NoDbName),
       Datum("FloatField", <<"a">>, FALSE, NoDbName) >>

\* a required float field that sorts before an optional integer field
BodyV ==
    << Datum("Tag", <<"t">>, FALSE, NoDbName),
       Datum("IntegerField", <<"m">>, FALSE, NoDbName),
       Datum("FloatField", <<"a">>, TRUE, NoDbName) >>

InvalidDeclarations ==
    { [name |-> <<"Q">>, body |-> BodyQ], [name |-> <<"V">>, body |-> BodyV] }

\* the values a caller passes for a datum, a text that is no number among them
InvalidInputs(datum) ==
    CASE datum.class = "IntegerField" -> {None, PyInt(3), PyStr(<<"x">>)}
      [] datum.class = "FloatField" -> {None, PyFloat(25), PyStr(<<"x">>)}
      [] OTHER -> Inputs(datum)

\* every row of such values for the datums
RECURSIVE invalid_rows(_)
invalid_rows(datums) ==
    IF datums = <<>> THEN {<<>>}
    ELSE {<<v>> \o r : v \in InvalidInputs(datums[1]), r \in invalid_rows(Tail(datums))}

\* A class is declared and one object of it is constructed, without time
InitInvalid ==
    /\ \E d \in InvalidDeclarations, k \in {"Measurement", "Series", "Point"} :
        /\ kind = k
        /\ cls = new_class(IF k = "Measurement" THEN d.name ELSE WrapperName,
                           d.name, d.body)
    /\ \/ /\ IsTable
          /\ \E n \in 1..MaxRows :
             \E rows \in [1..n -> invalid_rows(datums_of(cls))] :
                data_frame = Table__init__(cls, None, kwargs_of(cls, rows))
          /\ attrs = <<>>
       \/ /\ kind = "Point"
          /\ data_frame = EmptyFrame
          /\ \E r \in invalid_rows(tags_and_fields(cls)) :
                attrs = [name \in {tags_and_fields(cls)[c].name :
                                      c \in 1..Len(tags_and_fields(cls))} |->
                            r[CHOOSE c \in 1..Len(tags_and_fields(cls)) :
                                tags_and_fields(cls)[c].name = name]]
    /\ _time = None
    /\ out = NoResult
    /\ fin = None
    /\ classes = declared(cls, kind)
    /\ fout = <<>>

\* The property setter of a tag or field of a table, given one value for
\* all rows
SetInvalidColumn ==
    /\ IsTable
    /\ \E c \in 1..Len(datums_of(cls)) :
       \E value \in InvalidInputs(datums_of(cls)[c]) :
            data_frame' = _set_column(data_frame, datums_of(cls)[c].name,
                                      broadcast(value, len(data_frame)))
    /\ out' = NoResult
    /\ UNCHANGED <<classes, cls, kind, attrs, _time, fin, fout>>

\* setattr(point, name, value) for a tag or field
PointSetInvalidAttr ==
    /\ kind = "Point"
    /\ \E c \in 1..Len(tags_and_fields(cls)) :
       \E value \in InvalidInputs(tags_and_fields(cls)[c]) :
            attrs' = [attrs EXCEPT ![tags_and_fields(cls)[c].name] = value]
    /\ out' = NoResult
    /\ UNCHANGED <<classes, cls, kind, data_frame, _time, fin, fout>>

NextInvalid ==
    \/ MeasurementToLineProtocol
    \/ SeriesToLineProtocol
    \/ PointToLineProtocol
    \/ SetInvalidColumn
    \/ PointSetInvalidAttr

SpecInvalid == InitInvalid /\ [][NextInvalid]_vars

----------------------------------------------------------------------------
(* Measurement.from_json.  A JSON map is a function on its keys. *)

\* the concatenation of result["series"] over the results that have one
RECURSIVE extend(_)
extend(results) ==
    IF results = <<>> THEN <<>>
    ELSE (IF "series" \in DOMAIN results[1] THEN results[1].series ELSE <<>>)
         \o extend(Tail(results))

\* the list `series` that from_json collects from the content
series_of(content) ==
    IF "results" \in DOMAIN content THEN extend(content.results)
    ELSE IF "series" \in DOMAIN content THEN content.series
    ELSE IF "name" \in DOMAIN content THEN <<content>>
    ELSE <<>>

\* s.get("name", None) of a series without name
NoName == <<"<None>">>

\* s.get("name", None)
get_name(s) == IF "name" \in DOMAIN s THEN s.name ELSE NoName

\* a faulty variant: the last series of the name
RECURSIVE last_named(_, _)
last_named(series, name) ==
    IF series = <<>> THEN <<>>
    ELSE IF get_name(series[Len(series)]) = name THEN <<series[Len(series)]>>
    ELSE last_named(SubSeq(series, 1, Len(series) - 1), name)

\* the series at which the loop of from_json returns, as a list of one
\* series, or the empty list when the loop ends without returning
RECURSIVE first_named(_, _)
first_named(series, name) ==
    IF series = <<>> THEN <<>>
    ELSE IF get_name(series[1]) = name THEN <<series[1]>>
    ELSE first_named(Tail(series), name)

\* pd.DataFrame.from_records(values, columns=columns)
from_records(values, columns) ==
    [columns |-> columns,
     data |-> [c \in 1..Len(columns) |->
                  sanitize([i \in 1..Len(values) |-> values[i][c]])]]

\* cls.from_json(content): the table returned, or ValueError
from_json(class, content) ==
    LET found == first_named(series_of(content), class.name)
    IN IF found = <<>> THEN [status |-> "ValueError", frame |-> EmptyFrame]
       ELSE LET s == found[1]
                df == from_records(s.values, s.columns)
                named == {s.columns[c] : c \in 1..Len(s.columns)}
                attnames == {datums_of(class)[c].name :
                                c \in 1..Len(datums_of(class))}
                kwargs == [name \in attnames |->
                              IF name \in named THEN column(df, name)
                              ELSE broadcast(None, Len(s.values))]
                time == IF time_name \in named
                        THEN PyList([i \in 1..Len(s.values) |->
                                        column(df, time_name)[i].n])
                        ELSE None
            IN [status |-> "ok", frame |-> Table__init__(class, time, kwargs)]

\* the most results of a content and the most series of a list
MaxResults == 2
MaxSeries == 2

\* every list of at most n elements of the set
Lists(set, n) == UNION {[1..k -> set] : k \in 0..n}

JsonName == <<"M", "e", "a", "s", "u", "r", "e", "m", "e", "n", "t">>

\* two rows, with a null in the second
SeriesM1 ==
    [name |-> JsonName,
     columns |-> <<time_name, <<"i", "n", "t", "_", "f", "i", "e", "l", "d">>,
                   <<"t", "a", "g", "1">>>>,
     values |-> << <<PyInt(1500), PyInt(3), PyStr(<<"a", " ", "b">>)>>,
                   <<PyInt(3000), None, PyStr(<<"c">>)>> >>]

\* one row, other columns, no time
SeriesM2 ==
    [name |-> JsonName,
     columns |-> << <<"t", "a", "g", "1">>,
                    <<"f", "l", "o", "a", "t", "_", "f", "i", "e", "l", "d">> >>,
     values |-> << <<PyStr(<<"a", " ", "b">>), PyFloat(25)>> >>]

\* no rows
SeriesM0 == [SeriesM2 EXCEPT !.values = <<>>]

\* the series of another measurement
SeriesO == [SeriesM1 EXCEPT !.name = <<"O">>]

\* a series without name
SeriesNameless == [columns |-> SeriesM1.columns, values |-> SeriesM1.values]

\* an entry of results: with a list of series, or without series
Results ==
    {[series |-> l] : l \in Lists({SeriesM1, SeriesM2, SeriesO}, MaxSeries)}
        \cup {[statement_id |-> 0]}

\* the contents given to from_json
JsonContents ==
    {[results |-> rs] : rs \in Lists(Results, MaxResults)}
        \cup {[series |-> l] :
                l \in Lists({SeriesM1, SeriesM2, SeriesM0, SeriesO, SeriesNameless},
                            MaxSeries)}
        \cup {SeriesM1, SeriesM2, SeriesM0, SeriesO}
        \cup {<<>>, [bad |-> <<"i", "n", "p", "u", "t">>]}

\* The class Measurement of BodyA is declared and a content was received
InitJson ==
    /\ kind = "Measurement"
    /\ cls = new_class(JsonName, JsonName, BodyA)
    /\ data_frame = EmptyFrame
    /\ attrs = <<>>
    /\ _time = None
    /\ out = NoResult
    /\ fin \in JsonContents
    /\ classes = declared(cls, kind)
    /\ fout = <<>>

\* Measurement.from_json(content)
FromJson ==
    /\ out = NoResult
    /\ data_frame' = from_json(cls, fin).frame
    /\ out' = Result(from_json(cls, fin).status, <<>>, <<>>)
    /\ UNCHANGED <<classes, cls, kind, attrs, _time, fin, fout>>

NextJson == FromJson

SpecJson == InitJson /\ [][NextJson]_vars

----------------------------------------------------------------------------
(* Measurement.make_query_string *)

\* text.split(sep) for a sep of any length
RECURSIVE str_split(_, _)
str_split(text, sep) ==
    IF \E p \in 1..(Len(text) - Len(sep) + 1) :
            SubSeq(text, p, p + Len(sep) - 1) = sep
    THEN LET p == CHOOSE k \in 1..(Len(text) - Len(sep) + 1) :
                    /\ SubSeq(text, k, k + Len(sep) - 1) = sep
                    /\ \A l \in 1..(k - 1) : SubSeq(text, l, l + Len(sep) - 1) # sep
         IN <<SubSeq(text, 1, p - 1)>>
                \o str_split(SubSeq(text, p + Len(sep), Len(text)), sep)
    ELSE <<text>>

\* Measurement.COMPARATORS, and KeyError for a key it does not have
KeyError == <<"<KeyError>">>

COMPARATORS(compare_type) ==
    CASE compare_type = <<"l", "t">> -> <<"<">>
      [] compare_type = <<"l", "t", "e">> -> <<"<", "=">>
      [] compare_type = <<"e", "q">> -> <<"=">>
      [] compare_type = <<"n", "e", "q">> -> <<"<", ">">>
      [] compare_type = <<"g", "t", "e">> -> <<">", "=">>
      [] compare_type = <<"g", "t">> -> <<">">>
      [] OTHER -> KeyError

\* an aware datetime: the instant in microseconds after EPOCH read on the
\* clock of a time zone
PyDatetimeAt(us, tzinfo) == [t |-> "datetime", n |-> us, s |-> tzinfo]

\* tzinfo.utcoffset in minutes; pytz.UTC is the empty name
HalfHourEast == <<"+", "0", "0", ":", "3", "0">>

utcoffset(tzinfo) == IF tzinfo = HalfHourEast THEN 30 ELSE 0

\* value.astimezone(pytz.UTC): the same instant on the clock of UTC
astimezone(value) == PyDatetimeAt(value.n, <<>>)

\* value.strftime("'%Y-%m-%dT%H:%M:%S.%fZ'"): the fields of the clock of the
\* datetime's own zone, for a reading in the first hour after midnight of
\* 1970-01-01
strftime(value) ==
    LET clock == value.n + 60000000 * utcoffset(value.s)
    IN <<"'", "1", "9", "7", "0", "-", "0", "1", "-", "0", "1", "T", "0", "0", ":">>
        \o pad(str_nat(clock \div 60000000), 2) \o <<":">>
        \o pad(str_nat((clock \div 1000000) % 60), 2) \o <<".">>
        \o pad(str_nat(clock % 1000000), 6) \o <<"Z", "'">>

\* a faulty variant: the datetime is written on the clock of its own zone
_format_condition_value_local(value) ==
    CASE value.t = "str" -> <<"'">> \o value.s \o <<"'">>
      [] value.t = "None" -> <<"n", "u", "l", "l">>
      [] value.t = "datetime" -> strftime(value)
      [] OTHER -> str(value)

_format_condition_value(value) ==
    CASE value.t = "str" -> <<"'">> \o value.s \o <<"'">>
      [] value.t = "None" -> <<"n", "u", "l", "l">>
      [] value.t = "datetime" -> strftime(astimezone(value))
      [] OTHER -> str(value)

\* Measurement._format_condition: the condition, or ValueError
_format_condition(argument, value) ==
    LET parts == str_split(argument, <<"_", "_">>)
        name == IF Len(parts) = 2 THEN parts[1] ELSE argument
        compare_type == IF Len(parts) = 2 THEN parts[2] ELSE <<"e", "q">>
    IN IF COMPARATORS(compare_type) = KeyError THEN ValueError
       ELSE join(<<" ">>, <<name, COMPARATORS(compare_type),
                             _format_condition_value(value)>>)

\* a faulty variant: the conditions formatted in the reverse order
formatted_reversed(conditions) ==
    [k \in 1..Len(conditions) |->
        _format_condition(conditions[Len(conditions) + 1 - k][1],
                          conditions[Len(conditions) + 1 - k][2])]

\* the conditions formatted in the order of the mapping
formatted(conditions) ==
    [k \in 1..Len(conditions) |->
        _format_condition(conditions[k][1], conditions[k][2])]

\* the measurement name and the SELECT ... FROM part
select_from(class, measurement_name) ==
    <<"S", "E", "L", "E", "C", "T", " ">>
        \o join(<<",">>, [k \in 1..Len(tags_and_fields(class)) |->
                            tags_and_fields(class)[k].name])
        \o <<" ", "F", "R", "O", "M", " ">> \o measurement_name

\* a faulty variant: the name is qualified when either of the two is given
measurement_name_either(class, database, retention_policy) ==
    IF bool(database) \/ bool(retention_policy)
    THEN str(database) \o <<".">> \o str(retention_policy) \o <<".">> \o class.name
    ELSE class.name

\* the name after FROM
measurement_name(class, database, retention_policy) ==
    IF bool(database) /\ bool(retention_policy)
    THEN str(database) \o <<".">> \o str(retention_policy) \o <<".">> \o class.name
    ELSE class.name

\* a faulty variant: OFFSET is written whenever an offset is given
limit_clause_offset_alone(limit, offset) ==
    (IF limit # None THEN <<" ", "L", "I", "M", "I", "T", " ">> \o str(int(limit)) ELSE <<>>)
        \o (IF offset # None THEN <<" ", "O", "F", "F", "S", "E", "T", " ">> \o str(int(offset)) ELSE <<>>)

\* the LIMIT and OFFSET that make_query_string appends
limit_clause(limit, offset) ==
    IF limit # None
    THEN <<" ", "L", "I", "M", "I", "T", " ">> \o str(int(limit))
            \o (IF offset # None THEN <<" ", "O", "F", "F", "S", "E", "T", " ">> \o str(int(offset)) ELSE <<>>)
    ELSE <<>>

\* Measurement.make_query_string; conditions is the list of (argument,
\* value) of the keyword mapping, in its order
make_query_string(class, limit, offset, database, retention_policy, conditions) ==
    LET where == IF conditions # <<>>
                 THEN <<" ", "W", "H", "E", "R", "E", " ">> \o join(<<" ", "A", "N", "D", " ">>, formatted(conditions))
                 ELSE <<>>
    IN IF \E k \in 1..Len(conditions) : formatted(conditions)[k] = ValueError
       THEN Result("ValueError", <<>>, <<>>)
       ELSE Result("ok",
                   select_from(class,
                               measurement_name(class, database, retention_policy))
                       \o where \o limit_clause(limit, offset),
                   <<>>)

\* the most conditions of a call
MaxConditions == 2

\* tags and fields whose names interleave
BodyW ==
    << Datum("StringField", <<"d">>, FALSE, NoDbName),
       Datum("Tag", <<"c">>, FALSE, NoDbName),
       Datum("IntegerField", <<"b">>, FALSE, NoDbName),
       Datum("Tag", <<"a">>, FALSE, NoDbName) >>

QueryDeclarations ==
    { [name |-> JsonName, body |-> BodyA], [name |-> <<"W">>, body |-> BodyW] }

\* keyword arguments that are conditions, each with a value
Conditions ==
    { <<<<"a">>, PyStr(<<"h", "e", "l", "l", "o">>)>>,
      <<<<"a", "_", "_", "n", "e", "q">>, None>>,
      <<<<"b", "_", "_", "g", "t">>, PyInt(5)>>,
      <<<<"b", "_", "_", "l", "t", "e">>, PyFloat(25)>>,
      <<<<"d", "_", "_", "e", "q">>, PyBool(TRUE)>>,
      <<<<"t", "i", "m", "e", "_", "_", "l", "t">>, PyDatetime(12345)>>,
      <<<<"t", "i", "m", "e", "_", "_", "g", "t", "e">>, PyInt(0)>>,
      <<<<"t", "i", "m", "e", "_", "_", "g", "t">>, PyDatetimeAt(61000002, HalfHourEast)>>,
      <<<<"b", "_", "_", "a", "b", "c", "d">>, PyInt(5)>>,
      <<<<"a", "_", "_", "b", "_", "_", "c">>, PyInt(5)>> }

\* the mappings of at most n conditions, each keyword once
ConditionLists(n) ==
    {l \in Lists(Conditions, n) :
        \A i, k \in 1..Len(l) : i # k => l[i][1] # l[k][1]}

\* the keyword arguments of a call
QueryArguments ==
    [limit : {None, PyInt(0), PyInt(5)},
     offset : {None, PyInt(2)},
     database : {None, PyStr(<<>>), PyStr(<<"d", "b">>)},
     retention_policy : {None, PyStr(<<"r", "p">>)},
     conditions : ConditionLists(MaxConditions)]

\* A class is declared and make_query_string is about to be called
InitQuery ==
    /\ kind = "Measurement"
    /\ \E d \in QueryDeclarations : cls = new_class(d.name, d.name, d.body)
    /\ data_frame = EmptyFrame
    /\ attrs = <<>>
    /\ _time = None
    /\ out = NoResult
    /\ fin \in QueryArguments
    /\ classes = declared(cls, kind)
    /\ fout = <<>>

\* cls.make_query_string(limit=..., offset=..., database=...,
\* retention_policy=..., **conditions)
MakeQueryString ==
    /\ out = NoResult
    /\ out' = make_query_string(cls, fin.limit, fin.offset, fin.database,
                                fin.retention_policy, fin.conditions)
    /\ UNCHANGED <<classes, cls, kind, data_frame, attrs, _time, fin, fout>>

NextQuery == MakeQueryString

SpecQuery == InitQuery /\ [][NextQuery]_vars

----------------------------------------------------------------------------
(* Classes derived from declared classes *)

\* the most classes declared below Measurement, Series or Point
MaxClasses == 2

\* class NewPoint(base): new_field = IntegerField(); new_tag = Tag()
BodyN ==
    << Datum("IntegerField", <<"n", "e", "w", "_", "f", "i", "e", "l", "d">>, FALSE, NoDbName),
       Datum("Tag", <<"n", "e", "w", "_", "t", "a", "g">>, FALSE, NoDbName) >>

\* a body that declares again names of BodyA:
\* tag1 = Tag(required=True); int_field = IntegerField(required=True)
BodyO ==
    << Datum("Tag", <<"t", "a", "g", "1">>, TRUE, NoDbName),
       Datum("IntegerField", <<"i", "n", "t", "_", "f", "i", "e", "l", "d">>, TRUE, NoDbName) >>

\* a body that declares the name of a tag of BodyA as a field:
\* tag1 = StringField()
BodyX == << Datum("StringField", <<"t", "a", "g", "1">>, FALSE, NoDbName) >>

\* the first class is declared with BodyA, the classes derived from it or
\* from one another with one of the others
ClassBodies(n) == IF n = 1 THEN {BodyA} ELSE {BodyN, BodyO, BodyX}

Bases(n) == IF n = 1 THEN {1} ELSE 2..n

\* the name of the n-th class declared
ClassName(n) == <<"C">> \o str_nat(n)

\* the measurement registered for Series and Point classes
RegisteredName == <<"M">>

\* one value for a datum, and one row of a class
Sample(datum) ==
    CASE datum.class = "Tag" -> PyStr(<<"a", " ", "b">>)
      [] datum.class = "IntegerField" -> PyInt(3)
      [] datum.class = "FloatField" -> PyFloat(25)
      [] datum.class = "StringField" -> PyStr(<<"q">>)
      [] OTHER -> PyBool(TRUE)

SampleRow(class) ==
    [c \in 1..Len(datums_of(class)) |-> Sample(datums_of(class)[c])]

\* no name of the class is a tag and a field at once, and it has a field
Constructible(class) ==
    /\ class.fields_by_attname # <<>>
    /\ \A t \in 1..Len(class.tags_by_attname) :
       \A f \in 1..Len(class.fields_by_attname) :
            class.tags_by_attname[t].name # class.fields_by_attname[f].name

\* Measurement, Series or Point exists, and no object does
InitClass ==
    /\ kind \in {"Measurement", "Series", "Point"}
    /\ classes = Root(kind)
    /\ cls = classes[1].class
    /\ data_frame = EmptyFrame
    /\ attrs = <<>>
    /\ _time = None
    /\ out = NoResult
    /\ fin = None
    /\ fout = <<>>

\* class C<n>(base): body
DeclareClass ==
    /\ Len(classes) <= MaxClasses
    /\ \E base \in Bases(Len(classes)), body \in ClassBodies(Len(classes)) :
            classes' = __new__(classes, base, ClassName(Len(classes)),
                               IF kind = "Measurement"
                               THEN ClassName(Len(classes)) ELSE RegisteredName,
                               body, kind)
    /\ UNCHANGED <<cls, kind, data_frame, attrs, _time, out, fin, fout>>

\* C.tags_and_fields read on one of the classes; out, fin and fout hold what
\* the last call was given and returned
ReadTagsAndFields ==
    /\ \E i \in 1..Len(classes) :
            /\ classes' = get_tags_and_fields(classes, i, kind).classes
            /\ fout' = get_tags_and_fields(classes, i, kind).value
            /\ fin' = PyInt(i)
    /\ out' = NoResult
    /\ UNCHANGED <<cls, kind, data_frame, attrs, _time>>

\* C(**kwargs) with a value for every tag and field
Construct ==
    /\ \E i \in 2..Len(classes) :
        LET class == classes[i].class
        IN /\ Constructible(class)
           /\ cls' = class
           /\ IF IsTable
              THEN /\ data_frame' = Table__init__(class, None,
                                        kwargs_of(class, <<SampleRow(class)>>))
                   /\ attrs' = <<>>
                   /\ classes' = classes
              ELSE /\ data_frame' = EmptyFrame
                   /\ attrs' = [name \in {tags_and_fields(class)[c].name :
                                            c \in 1..Len(tags_and_fields(class))} |->
                                  Sample(tags_and_fields(class)[
                                    CHOOSE c \in 1..Len(tags_and_fields(class)) :
                                        tags_and_fields(class)[c].name = name])]
                   /\ classes' = get_tags_and_fields(classes, i, kind).classes
    /\ _time' = None
    /\ out' = NoResult
    /\ fin' = None
    /\ fout' = <<>>
    /\ UNCHANGED kind

\* the object that exists gets None for its first tag or field
Assign ==
    /\ cls # classes[1].class
    /\ IF IsTable
       THEN /\ data_frame' = _set_column(data_frame, datums_of(cls)[1].name,
                                         broadcast(None, len(data_frame)))
            /\ attrs' = attrs
       ELSE /\ attrs' = [attrs EXCEPT ![tags_and_fields(cls)[1].name] = None]
            /\ data_frame' = data_frame
    /\ out' = NoResult
    /\ fin' = None
    /\ fout' = <<>>
    /\ UNCHANGED <<classes, cls, kind, _time>>

\* to_line_protocol of the object that exists
Encode ==
    /\ cls # classes[1].class
    /\ out' = CASE kind = "Measurement" -> to_line_protocol(cls.name, cls, data_frame)
                [] kind = "Series" -> to_line_protocol(cls.measurement, cls, data_frame)
                [] OTHER -> Point_to_line_protocol(cls, attrs, _time)
    /\ fin' = None
    /\ fout' = <<>>
    /\ UNCHANGED <<classes, cls, kind, data_frame, attrs, _time>>

\* C.from_json(series) for a series of the name of the class
Decode ==
    /\ kind = "Measurement"
    /\ \E i \in 2..Len(classes) :
        LET class == classes[i].class
            decoded == from_json(class, [SeriesM2 EXCEPT !.name = class.name])
        IN /\ Constructible(class)
           /\ cls' = class
           /\ data_frame' = decoded.frame
           /\ out' = Result(decoded.status, <<>>, <<>>)
    /\ fin' = None
    /\ fout' = <<>>
    /\ UNCHANGED <<classes, kind, attrs, _time>>

\* C.make_query_string(); the property it reads stores the attribute again
Query ==
    /\ kind = "Measurement"
    /\ \E i \in 1..Len(classes) :
        /\ out' = make_query_string(classes[i].class, None, None, None, None, <<>>)
        /\ classes' = get_tags_and_fields(classes, i, kind).classes
    /\ fin' = None
    /\ fout' = <<>>
    /\ UNCHANGED <<cls, kind, data_frame, attrs, _time>>

NextClass ==
    \/ DeclareClass
    \/ ReadTagsAndFields
    \/ Construct
    \/ Assign
    \/ Encode
    \/ Decode
    \/ Query

SpecClass == InitClass /\ [][NextClass]_vars

----------------------------------------------------------------------------
(* Keyword arguments of any name, columns of any length *)

\* what is passed for a column: one value for all rows, or a list
Scalar(value) == [list |-> FALSE, items |-> <<value>>]

List(items) == [list |-> TRUE, items |-> items]

\* kwargs.get(name, default); kwargs maps the keywords that were passed
kwargs_get(kwargs, name, default) ==
    IF name \in DOMAIN kwargs THEN kwargs[name] ELSE default

\* the lengths of the values that are lists
lengths(values) ==
    {Len(values[k].items) : k \in {j \in 1..Len(values) : values[j].list}}

\* a scalar item of from_items is repeated, a list is taken as it is
as_column(value, n) ==
    IF value.list THEN value.items ELSE broadcast(value.items[1], n)

\* Measurement.__init__ / Series.__init__ for any keywords: the frame, or
\* ValueError from pandas when the lists passed for tags, fields and time
\* are not of one length (or when there is no list at all); time is None or
\* a list of instants
Measurement__init__(class, time, kwargs) ==
    LET datums == datums_of(class)
        values == [k \in 1..Len(datums) |->
                      kwargs_get(kwargs, datums[k].name, Scalar(None))]
                    \o <<IF time # None THEN List(time.s) ELSE Scalar(None)>>
    IN IF Cardinality(lengths(values)) # 1
       THEN [status |-> "ValueError", frame |-> EmptyFrame]
       ELSE LET n == CHOOSE l \in lengths(values) : TRUE
            IN [status |-> "ok",
                frame |-> Table__init__(class, time,
                            [name \in {datums[k].name : k \in 1..Len(datums)} |->
                                as_column(kwargs_get(kwargs, name, Scalar(None)), n)])]

\* a faulty variant: every keyword becomes an attribute
Point__init___every_keyword(class, kwargs) ==
    [name \in DOMAIN kwargs \cup {tags_and_fields(class)[c].name :
                                    c \in 1..Len(tags_and_fields(class))} |->
        kwargs_get(kwargs, name, None)]

\* Point.__init__: the attributes set for the tags and fields
Point__init__(class, kwargs) ==
    [name \in {tags_and_fields(class)[c].name :
                  c \in 1..Len(tags_and_fields(class))} |->
        kwargs_get(kwargs, name, None)]

\* a faulty variant: the value is stored whatever its length
__setitem___unchecked(df, name, value) ==
    [status |-> "ok",
     frame |-> IF value.list
               THEN [df EXCEPT !.data =
                        [c \in 1..Len(df.columns) |->
                            IF df.columns[c] = name THEN value.items ELSE df.data[c]]]
               ELSE _set_column(df, name, as_column(value, len(df)))]

\* self.data_frame[name] = value: pandas raises ValueError for a list that
\* is not as long as the frame and leaves the frame as it was
__setitem__(df, name, value) ==
    IF value.list /\ Len(value.items) # len(df)
    THEN [status |-> "ValueError", frame |-> df]
    ELSE [status |-> "ok",
          frame |-> _set_column(df, name, as_column(value, len(df)))]

\* class K: s = Tag(); t = Tag(); m = IntegerField()
BodyK ==
    << Datum("Tag", <<"s">>, FALSE, NoDbName),
       Datum("Tag", <<"t">>, FALSE, NoDbName),
       Datum("IntegerField", <<"m">>, FALSE, NoDbName) >>

\* a keyword that is the name of no tag or field, as acc_x in examples/imu.py
Misnamed == <<"x">>

\* the lists of 1..n copies of a value
Repeated(value, n) == {List(broadcast(value, k)) : k \in 1..n}

\* the values passed for a keyword when a table is constructed, and when a
\* Point is
TableValues(name) ==
    CASE name = <<"s">> -> {Scalar(PyStr(<<"a", " ", "b">>))}
      [] name = <<"t">> -> {Scalar(PyStr(<<"a", ",">>))} \cup Repeated(PyStr(<<"a", ",">>), MaxRows)
      [] name = <<"m">> -> {Scalar(PyInt(3))} \cup Repeated(PyInt(3), MaxRows)
      [] OTHER -> Repeated(PyInt(3), 1)

PointValues(name) ==
    CASE name = <<"s">> -> {PyStr(<<"a", ",">>)}
      [] name = <<"t">> -> {PyStr(<<"a", ",">>), PyStr(<<"a", " ", "b">>)}
      [] OTHER -> {PyInt(3)}

\* the keyword mappings of a call
Keywords(values(_)) ==
    UNION { {kwargs \in [names -> UNION {values(name) : name \in names}] :
                \A name \in names : kwargs[name] \in values(name)} :
            names \in SUBSET {<<"s">>, <<"t">>, <<"m">>, Misnamed} }

\* the time lists of a table
TimeArrays(n) == {PyList([i \in 1..k |-> 1500 * i]) : k \in 1..n}

\* no call yet
NoCall ==
    [op |-> "none", time |-> None, kwargs |-> <<>>, name |-> <<>>,
     value |-> Scalar(None)]

\* A class is declared, no object of it exists
InitKeywords ==
    /\ \E k \in {"Measurement", "Series", "Point"} :
        /\ kind = k
        /\ classes = __new__(Root(k), 1,
                             IF k = "Measurement" THEN <<"K">> ELSE WrapperName,
                             <<"K">>, BodyK, k)
    /\ cls = classes[2].class
    /\ data_frame = EmptyFrame
    /\ attrs = <<>>
    /\ _time = None
    /\ out = NoResult
    /\ fin = NoCall
    /\ fout = <<>>

\* K(time=time, **kwargs) for a Measurement or a Series; fin holds the last
\* call that made or changed the object
ConstructTable ==
    /\ IsTable
    /\ fin.op = "none"
    /\ \E kwargs \in Keywords(TableValues), time \in {None} \cup TimeArrays(MaxRows) :
        /\ data_frame' = Measurement__init__(cls, time, kwargs).frame
        /\ out' = Result(Measurement__init__(cls, time, kwargs).status, <<>>, <<>>)
        /\ fin' = [NoCall EXCEPT !.op = "__init__", !.time = time, !.kwargs = kwargs]
    /\ UNCHANGED <<classes, cls, kind, attrs, _time, fout>>

\* P(time=time, **kwargs) for a Point
ConstructPoint ==
    /\ kind = "Point"
    /\ fin.op = "none"
    /\ \E kwargs \in Keywords(PointValues), time \in {None, PyInt(1500)} :
        /\ attrs' = Point__init__(cls, kwargs)
        /\ _time' = time_setter(time)
        /\ fin' = [NoCall EXCEPT !.op = "__init__", !.time = time, !.kwargs = kwargs]
    /\ classes' = get_tags_and_fields(classes, 2, kind).classes
    /\ out' = Result("ok", <<>>, <<>>)
    /\ UNCHANGED <<cls, kind, data_frame, fout>>

\* table.name = value for a tag or field, table.time = value for the time:
\* a list of any length up to one more than the rows, or None
AssignColumn ==
    /\ IsTable
    /\ data_frame # EmptyFrame
    /\ \E c \in 1..Len(data_frame.columns) :
       \E value \in {Scalar(None)} \cup
                    (IF data_frame.columns[c] = time_name
                     THEN {List(datetime64(time.s)) :
                            time \in TimeArrays(len(data_frame) + 1)}
                     ELSE Repeated(PyInt(3), len(data_frame) + 1)) :
        /\ data_frame' = __setitem__(data_frame, data_frame.columns[c], value).frame
        /\ out' = Result(__setitem__(data_frame, data_frame.columns[c], value).status,
                         <<>>, <<>>)
        /\ fin' = [NoCall EXCEPT !.op = "__setitem__",
                                 !.name = data_frame.columns[c], !.value = value]
    /\ UNCHANGED <<classes, cls, kind, attrs, _time, fout>>

\* to_line_protocol of the object that was constructed
EncodeObject ==
    /\ fin.op # "none"
    /\ IsTable => data_frame # EmptyFrame
    /\ out' = CASE kind = "Measurement" -> to_line_protocol(cls.name, cls, data_frame)
                [] kind = "Series" -> to_line_protocol(cls.measurement, cls, data_frame)
                [] OTHER -> Point_to_line_protocol(cls, attrs, _time)
    /\ fin' = [fin EXCEPT !.op = "to_line_protocol"]
    /\ UNCHANGED <<classes, cls, kind, data_frame, attrs, _time, fout>>

NextKeywords ==
    \/ ConstructTable
    \/ ConstructPoint
    \/ AssignColumn
    \/ EncodeObject

SpecKeywords == InitKeywords /\ [][NextKeywords]_vars

----------------------------------------------------------------------------
(* Reading the text that was returned *)

\* text.split(sep) for a one-character sep
RECURSIVE split(_, _)
split(text, sep) ==
    IF \A i \in 1..Len(text) : text[i] # sep THEN <<text>>
    ELSE LET p == CHOOSE i \in 1..Len(text) :
                      text[i] = sep /\ \A j \in 1..(i - 1) : text[j] # sep
         IN <<SubSeq(text, 1, p - 1)>> \o split(SubSeq(text, p + 1, Len(text)), sep)

\* pat occurs in text at position p
occurs_at(text, pat, p) ==
    /\ p >= 1
    /\ p + Len(pat) - 1 <= Len(text)
    /\ SubSeq(text, p, p + Len(pat) - 1) = pat

\* the positions of a line where the entry "key=" of a tag or field starts:
\* right after the "," or " " that separates entries
entry_positions(ln, key) ==
    {p \in 2..Len(ln) : ln[p - 1] \in {",", " "} /\ occurs_at(ln, key \o <<"=">>, p)}

\* the position of the blank that separates the tags from the fields: the
\* first blank that is not escaped
separator(ln) ==
    LET blanks == {p \in 2..Len(ln) : ln[p] = " " /\ ln[p - 1] # "\\"}
    IN IF blanks = {} THEN 0
       ELSE CHOOSE p \in blanks : \A q \in blanks : p <= q

\* the lines of the text returned by the last call
Lines == split(out.text, "\n")

\* the number of records of the object
NumRows == IF IsTable THEN len(data_frame) ELSE 1

\* the value the object holds in record i for the tag, field or time name
Cell(i, name) == IF IsTable THEN column(data_frame, name)[i] ELSE attrs[name]

\* the timestamp the object holds in record i
TimeCell(i) == IF IsTable THEN column(data_frame, time_name)[i] ELSE _time

Tags == cls.tags_by_attname
Fields == cls.fields_by_attname
AllDatums == Tags \o Fields

IsNull(v) == v.t \in {"None", "nan"}

\* a to_line_protocol call has returned or raised, and nothing was set since
Encoded == out.status # "none"

\* a required datum among ds has a null in some record
SomeRequiredNull(ds) ==
    \E c \in 1..Len(ds) : ds[c].required
        /\ \E i \in 1..NumRows : IsNull(Cell(i, ds[c].name))

\* some record holds a text that cannot be coerced in an Integer or Float field
SomeUncoercible ==
    \E c \in 1..Len(Fields), i \in 1..NumRows :
        /\ Fields[c].class \in {"IntegerField", "FloatField"}
        /\ Cell(i, Fields[c].name).t = "str"
        /\ ~IsNumeral(Cell(i, Fields[c].name).s)

----------------------------------------------------------------------------
(* Claims *)

\* C1 (as stated): a table encoder given a table in which some row holds a
\* null (None or NaN) in the column of a required field raises
\* MissingFieldError and returns no text.
C1_AsStated ==
    (IsTable /\ Encoded /\ SomeRequiredNull(Fields))
        => (out.status = "MissingFieldError" /\ out.text = <<>>)

\* C1 (amended): a table encoder given a table in which some row holds a null
\* in the column of a required field returns no text and raises
\* MissingFieldError, unless some row also holds a null in the column of a
\* required tag, in which case it raises MissingTagError; the error is raised
\* also when some row holds a value that cannot be coerced to its field kind.
C1_RequiredFieldNull ==
    (IsTable /\ Encoded /\ SomeRequiredNull(Fields))
        => /\ out.text = <<>>
           /\ out.status = IF SomeRequiredNull(Tags) THEN "MissingTagError"
                            ELSE "MissingFieldError"

C1_Witness ==
    /\ IsTable /\ NumRows >= 2
    /\ out.status = "MissingFieldError"
    /\ SomeUncoercible
    /\ \E c \in 1..Len(Fields) : Fields[c].required
          /\ \E i, j \in 1..NumRows :
                IsNull(Cell(i, Fields[c].name)) /\ ~IsNull(Cell(j, Fields[c].name))

\* C2: a table encoder given a table in which some row holds a null in the
\* column of a required tag raises MissingTagError and returns no text, also
\* when a required field is violated as well.
C2_RequiredTagNull ==
    (IsTable /\ Encoded /\ SomeRequiredNull(Tags))
        => (out.status = "MissingTagError" /\ out.text = <<>>)

C2_Witness ==
    /\ IsTable /\ NumRows >= 2
    /\ out.status = "MissingTagError"
    /\ SomeRequiredNull(Fields)
    /\ \E c \in 1..Len(Tags) : Tags[c].required
          /\ \E i, j \in 1..NumRows :
                IsNull(Cell(i, Tags[c].name)) /\ ~IsNull(Cell(j, Tags[c].name))

C4_NaNOmitted ==
    (IsTable /\ out.status = "ok") =>
        \A i \in 1..NumRows, c \in 1..Len(Fields) :
            (Fields[c].class = "FloatField" /\ ~Fields[c].required) =>
                /\ Cardinality(entry_positions(Lines[i], Fields[c].name))
                      = IF IsNull(Cell(i, Fields[c].name)) THEN 0 ELSE 1
                /\ \A p \in 1..Len(Lines[i]) :
                      ~occurs_at(Lines[i], <<"=", "n", "a", "n">>, p)

\* the key the claim expects for a datum: its db_name when it was given one
WireName(datum) == IF datum.db_name # NoDbName THEN datum.db_name ELSE datum.name

\* C5: in the text of a successful encoding, the entry of every tag and field
\* that is present in a record is written under its wire name.
C5_WireNameWritten ==
    out.status = "ok" =>
        \A i \in 1..NumRows, c \in 1..Len(AllDatums) :
            Cell(i, AllDatums[c].name) # None =>
                Cardinality(entry_positions(Lines[i], WireName(AllDatums[c]))) = 1

\* pairs of attribute names of the declared classes, the alphabetically
\* smaller name first
AlphabeticalPairs ==
    { <<<<"f", "l", "o", "a", "t", "_", "f", "i", "e", "l", "d">>, <<"i", "n", "t", "_", "f", "i", "e", "l", "d">>>>, <<<<"o", "p", "t">>, <<"r", "e", "q">>>>, <<<<"t", "1">>, <<"t", "2">>>>, <<<<"b">>, <<"s">>>> }

\* where the entry of name starts in the line (0: there is none)
EntryPosition(ln, name) ==
    IF entry_positions(ln, name) = {} THEN 0
    ELSE CHOOSE p \in entry_positions(ln, name) : TRUE

IsTagName(name) == \E c \in 1..Len(Tags) : Tags[c].name = name

\* C6: every line starts with the measurement name, the entries of the present
\* tags follow it before the separating blank and those of the present fields
\* come after the blank, and among the tags and among the fields an entry
\* whose attribute name is alphabetically smaller comes first.
C6_AlphabeticalOrder ==
    out.status = "ok" =>
        \A i \in 1..NumRows :
            LET ln == Lines[i]
                name == IF kind = "Measurement" THEN cls.name ELSE cls.measurement
            IN /\ occurs_at(ln, name, 1)
               /\ separator(ln) > Len(name)
               /\ ln[Len(name) + 1] \in {",", " "}
               /\ \A c \in 1..Len(AllDatums) :
                    LET p == EntryPosition(ln, AllDatums[c].name)
                    IN p # 0 => IF IsTagName(AllDatums[c].name)
                                THEN p < separator(ln) ELSE p > separator(ln)
               /\ \A pair \in AlphabeticalPairs :
                    (EntryPosition(ln, pair[1]) # 0 /\ EntryPosition(ln, pair[2]) # 0)
                        => EntryPosition(ln, pair[1]) < EntryPosition(ln, pair[2])

C6_Witness ==
    /\ out.status = "ok"
    /\ \E i \in 1..NumRows :
          \E tp \in AlphabeticalPairs, fp \in AlphabeticalPairs :
            /\ IsTagName(tp[1]) /\ ~IsTagName(fp[1])
            /\ \A name \in {tp[1], tp[2], fp[1], fp[2]} :
                  EntryPosition(Lines[i], name) # 0

\* the record of the end-to-end example: one record of the schema Measurement
\* with tag1 = "a b", int_field = 3, float_field = 2.5 and a timestamp
C7_Record ==
    /\ cls.measurement = <<"M", "e", "a", "s", "u", "r", "e", "m", "e", "n", "t">>
    /\ NumRows = 1
    /\ Cell(1, <<"t", "a", "g", "1">>) = PyStr(<<"a", " ", "b">>)
    /\ Cell(1, <<"i", "n", "t", "_", "f", "i", "e", "l", "d">>) = PyInt(3)
    /\ Cell(1, <<"f", "l", "o", "a", "t", "_", "f", "i", "e", "l", "d">>) = PyFloat(25)
    /\ TimeCell(1) # None

\* the text after which the timestamp is written
C7_ClaimedPrefix ==
    <<"M", "e", "a", "s", "u", "r", "e", "m", "e", "n", "t", ",", "t", "a", "g", "1", "=", "a", "\\", " ", "b", " ">>
    \o <<"i", "n", "t", "_", "f", "i", "e", "l", "d", "=", "3", "i", ",">>
    \o <<"f", "l", "o", "a", "t", "_", "f", "i", "e", "l", "d", "=", "2", ".", "5">>
    \o <<" ">>

C7_CodePrefix ==
    <<"M", "e", "a", "s", "u", "r", "e", "m", "e", "n", "t", ",", "t", "a", "g", "1", "=", "a", "\\", " ", "b", " ">>
    \o <<"f", "l", "o", "a", "t", "_", "f", "i", "e", "l", "d", "=", "2", ".", "5", ",">>
    \o <<"i", "n", "t", "_", "f", "i", "e", "l", "d", "=", "3", "i">>
    \o <<" ">>

\* the nanosecond count of the instant the object holds
C7_Nanoseconds == IF IsTable THEN TimeCell(1).n ELSE 1000 * TimeCell(1).n

RECURSIVE TrailingDigits(_)
TrailingDigits(ln) ==
    IF ln = <<>> THEN 0
    ELSE IF ln[Len(ln)] \in {"0", "1", "2", "3", "4", "5", "6", "7", "8", "9"}
         THEN 1 + TrailingDigits(SubSeq(ln, 1, Len(ln) - 1))
         ELSE 0

\* record i holds a value for some field
SomeFieldPresent(i) == \E c \in 1..Len(Fields) : Cell(i, Fields[c].name) # None

\* C8: the line of a record that has a field entry ends, when the record has
\* a timestamp, with one blank and the digits of the timestamp, and when it
\* has none, with its last field entry and no blank after it.
C8_TimestampToken ==
    out.status = "ok" =>
        \A i \in 1..NumRows :
            LET ln == Lines[i]
                k == TrailingDigits(ln)
            IN SomeFieldPresent(i) =>
                IF TimeCell(i) # None
                THEN k > 0 /\ k + 1 < Len(ln) /\ ln[Len(ln) - k] = " "
                     /\ ln[Len(ln) - k - 1] # " "
                ELSE ln # <<>> /\ ln[Len(ln)] # " "

\* the table that holds row i only
RowFrame(df, i) ==
    [df EXCEPT !.data = [c \in 1..Len(df.columns) |-> <<df.data[c][i]>>]]

\* how often the character c occurs in text
Count(text, c) == Cardinality({p \in 1..Len(text) : text[p] = c})

RECURSIVE Unescape(_)
Unescape(text) ==
    IF text = <<>> THEN <<>>
    ELSE IF Len(text) >= 2 /\ text[1] = "\\" /\ text[2] \in {" ", ",", "="}
         THEN <<text[2]>> \o Unescape(SubSeq(text, 3, Len(text)))
         ELSE <<text[1]>> \o Unescape(Tail(text))

\* every blank, comma and equals sign prefixed with one backslash
RECURSIVE Escaped(_)
Escaped(text) ==
    IF text = <<>> THEN <<>>
    ELSE (IF text[1] \in {" ", ",", "="} THEN <<"\\", text[1]>> ELSE <<text[1]>>)
         \o Escaped(Tail(text))

\* C10: for a tag value without a backslash, Tag.format puts one backslash
\* before every blank, comma and equals sign and changes nothing else, and
\* removing those backslashes gives the value back.
C10_TagEscape ==
    (kind = "Tag" /\ fout # NoOutput /\ \A p \in 1..Len(fin.s) : fin.s[p] # "\\") =>
        /\ fout = Escaped(fin.s)
        /\ Unescape(fout) = fin.s

C10_Witness ==
    /\ kind = "Tag"
    /\ fin = PyStr(<<" ", ",", "=">>)
    /\ fout = <<"\\", " ", "\\", ",", "\\", "=">>

\* the text without its trailing i, read as a decimal integer
DecodeInteger(text) ==
    LET digits == SubSeq(text, 1, Len(text) - 1)
    IN IF digits # <<>> /\ digits[1] = "-"
       THEN PyInt(0 - parse_nat(Tail(digits)))
       ELSE PyInt(parse_nat(digits))

\* the literal True or False read as a bool
DecodeBoolean(text) == PyBool(text = <<"T", "r", "u", "e">>)

\* every backslash-quote pair of the text replaced by the quote
RECURSIVE Unquote(_)
Unquote(text) ==
    IF text = <<>> THEN <<>>
    ELSE IF Len(text) >= 2 /\ text[1] = "\\" /\ text[2] = "\""
         THEN <<"\"">> \o Unquote(SubSeq(text, 3, Len(text)))
         ELSE <<text[1]>> \o Unquote(Tail(text))

\* one layer of quotes stripped, then unescaped
DecodeString(text) == PyStr(Unquote(SubSeq(text, 2, Len(text) - 1)))

\* C11: the text an Integer, Boolean or String field formats from a value
\* of its kind has the shape the inverse rule expects (digits and a final
\* i; True or False; a quoted text) and decodes to that value exactly.
C11_FieldRoundTrip ==
    /\ (kind = "IntegerField" /\ fout # NoOutput) =>
          /\ fout[Len(fout)] = "i"
          /\ DecodeInteger(fout) = fin
    /\ (kind = "BooleanField" /\ fout # NoOutput) =>
          /\ fout \in {<<"T", "r", "u", "e">>, <<"F", "a", "l", "s", "e">>}
          /\ DecodeBoolean(fout) = fin
    /\ (kind = "StringField" /\ fout # NoOutput) =>
          /\ Len(fout) >= 2 /\ fout[1] = "\"" /\ fout[Len(fout)] = "\""
          /\ DecodeString(fout) = fin

C11_Witness ==
    /\ kind = "StringField"
    /\ fin = PyStr(<<"\\", "\"">>)
    /\ fout = <<"\"", "\\", "\\", "\"", "\"">>

\* the forms of argument that stand for one instant: the integer, the
\* nine-digit text, and the datetime when the instant has whole microseconds
Forms(ns) ==
    {PyInt(ns), PyStr(IsoText(ns))}
        \cup (IF ns % 1000 = 0 THEN {PyDatetime(ns \div 1000)} ELSE {})

\* C12: a Point whose time was set from one form of an instant stores the
\* timestamp, and renders the line, that every other form of the same
\* instant gives.
C12_FormsAgree ==
    \A ns \in Instants :
        fin \in Forms(ns) =>
            \A other \in Forms(ns) :
                /\ time_setter(other) = _time
                /\ out.status = "ok" =>
                      out = Point_to_line_protocol(cls, attrs, time_setter(other))

EndsWith(text, suffix) ==
    /\ Len(text) >= Len(suffix)
    /\ SubSeq(text, Len(text) - Len(suffix) + 1, Len(text)) = suffix

\* C13: the line of a Point whose time was set to the integer N >= 0 ends
\* with a blank and the decimal digits of N.
C13_IntegerRendered ==
    (fin.t = "int" /\ fin.n >= 0 /\ out.status = "ok") =>
        EndsWith(out.text, <<" ">> \o str_nat(fin.n))

\* the whole text is YYYY-MM-DDTHH:MM:SS.fffffffffZ
HasShape(text) ==
    /\ Len(text) = 30
    /\ \A p \in 1..30 :
          CASE p \in {5, 8} -> text[p] = "-"
            [] p = 11 -> text[p] = "T"
            [] p \in {14, 17} -> text[p] = ":"
            [] p = 20 -> text[p] = "."
            [] p = 30 -> text[p] = "Z"
            [] OTHER -> IsDigit(text[p])

\* C14: after the time of a Point was set from a text that does not have
\* the whole shape, the set has raised ValueError.
C14_TextShape ==
    (fin.t = "str" /\ ~HasShape(fin.s)) => out.status = "ValueError"

\* the types the time setter tests for; a bool is an instance of int
IsOtherType(v) == v.t \notin {"datetime", "int", "bool", "str", "None"}

\* C15: setting the time of a Point to a value of another type raises
\* TypeError and leaves the stored timestamp as it was; setting None
\* stores no timestamp and raises nothing.
C15_TypeErrorKeepsTime ==
    [][PointSetAnyTime =>
          /\ IsOtherType(fin') => (out'.status = "TypeError" /\ _time' = _time)
          /\ fin' = None => (out' = NoResult /\ _time' = None)]_vars

C15_Witness ==
    /\ fin = PyFloat(12)
    /\ out.status = "TypeError"
    /\ _time = PyDatetime(2)

\* a required datum among ds is None in the Point
SomeRequiredNone(ds) ==
    \E c \in 1..Len(ds) : ds[c].required /\ attrs[ds[c].name] = None

\* C16: Point.to_line_protocol on a record in which a required tag or a
\* required field is None returns no text and raises the error of the missing
\* datum (MissingTagError for a tag, MissingFieldError for a field), whatever
\* the other tags and fields hold.
C16_PointMissingWins ==
    (kind = "Point" /\ Encoded
        /\ (SomeRequiredNone(Tags) \/ SomeRequiredNone(Fields))) =>
        /\ out.text = <<>>
        /\ out.status \in {"MissingTagError", "MissingFieldError"}
        /\ ~SomeRequiredNone(Fields) => out.status = "MissingTagError"
        /\ ~SomeRequiredNone(Tags) => out.status = "MissingFieldError"

\* C17 (as stated): to_line_protocol on a record or table that holds a text
\* which is not numeric in a Float or Integer field raises ValueError and
\* returns no text.
C17_AsStated ==
    (Encoded /\ SomeUncoercible) => (out.status = "ValueError" /\ out.text = <<>>)

\* C17 (amended): to_line_protocol on a record or table that holds a text
\* which is not numeric in a Float or Integer field returns no text and
\* raises an error, which is ValueError when no required tag or field is
\* null in any record.
C17_UncoercibleAtEncode ==
    (Encoded /\ SomeUncoercible) =>
        /\ out.text = <<>>
        /\ out.status \in {"ValueError", "MissingTagError", "MissingFieldError"}
        /\ ~SomeRequiredNull(AllDatums) => out.status = "ValueError"

C17_Witness ==
    /\ IsTable /\ NumRows >= 2
    /\ out.status = "ValueError"
    /\ \E c \in 1..Len(Fields) :
          /\ Fields[c].class = "FloatField"
          /\ Cell(NumRows, Fields[c].name) = PyStr(<<"x">>)
          /\ \A i \in 1..(NumRows - 1) : Cell(i, Fields[c].name) = PyFloat(25)
    /\ \A c \in 1..Len(Fields) :
          Fields[c].class = "IntegerField" =>
              \A i \in 1..NumRows : Cell(i, Fields[c].name) = PyInt(3)

\* every series of the content in envelope order
RECURSIVE Flatten(_)
Flatten(results) ==
    IF results = <<>> THEN <<>>
    ELSE (IF "series" \in DOMAIN results[1] THEN results[1].series ELSE <<>>)
         \o Flatten(Tail(results))

EnvelopeSeries ==
    IF "results" \in DOMAIN fin THEN Flatten(fin.results)
    ELSE IF "series" \in DOMAIN fin THEN fin.series
    ELSE IF {"name", "columns", "values"} \subseteq DOMAIN fin THEN <<fin>>
    ELSE <<>>

\* the positions of the series that carry the name of the class
Named ==
    {k \in 1..Len(EnvelopeSeries) :
        "name" \in DOMAIN EnvelopeSeries[k] /\ EnvelopeSeries[k].name = cls.name}

\* the cell holds the JSON value: a null is a null of the table, a number is
\* the same number, a text is the same text
SameValue(cell, json) ==
    IF json = None THEN IsNull(cell)
    ELSE IF json.t \in {"int", "float"}
         THEN cell.t \in {"int", "float"} /\ float(cell) = float(json)
         ELSE cell = json

Words == split(out.text, " ")

\* the names between SELECT and FROM
Selected == split(Words[2], ",")

\* the attribute names of the tags and fields of the class
DeclaredNames == {AllDatums[c].name : c \in 1..Len(AllDatums)}

\* C19: make_query_string without conditions, limit and offset returns the
\* words SELECT, the columns, FROM and the measurement name and nothing
\* else; the columns are the names of all tags and fields, each once, in
\* ascending order.
C19_SelectAllColumns ==
    (Encoded /\ fin.conditions = <<>> /\ fin.limit = None /\ fin.offset = None) =>
        /\ out.status = "ok"
        /\ Len(Words) = 4
        /\ Words[1] = <<"S", "E", "L", "E", "C", "T">> /\ Words[3] = <<"F", "R", "O", "M">>
        /\ EndsWith(Words[4], cls.name)
        /\ (fin.database = None /\ fin.retention_policy = None) => Words[4] = cls.name
        /\ {Selected[k] : k \in 1..Len(Selected)} = DeclaredNames
        /\ Len(Selected) = Cardinality(DeclaredNames)
        /\ \A k \in 1..(Len(Selected) - 1) : str_lt(Selected[k], Selected[k + 1])

C19_Witness ==
    /\ fin.database = None
    /\ fin.offset = None
    /\ out.status = "ok"
    /\ out.text = <<"S", "E", "L", "E", "C", "T", " ", "a", ",", "b", ",", "c", ",", "d", " ", "F", "R", "O", "M", " ", "W">>

\* the argument was passed and is not the empty text
Given(v) == v # None /\ v.s # <<>>

\* C20: the word after FROM is database.retention_policy.measurement when
\* both database and retention_policy are given, and the measurement name
\* alone in every other case.
C20_FromQualifier ==
    (Encoded /\ out.status = "ok") =>
        /\ Words[3] = <<"F", "R", "O", "M">>
        /\ Words[4] = IF Given(fin.database) /\ Given(fin.retention_policy)
                      THEN fin.database.s \o <<".">> \o fin.retention_policy.s
                               \o <<".">> \o cls.name
                      ELSE cls.name

C20_Witness ==
    /\ fin.database = PyStr(<<"d", "b">>)
    /\ fin.retention_policy = PyStr(<<"r", "p">>)
    /\ out.text = <<"S", "E", "L", "E", "C", "T", " ", "a", ",", "b", ",", "c", ",", "d", " ", "F", "R", "O", "M", " ", "d", "b", ".", "r", "p", ".", "W", " ", "L", "I", "M", "I", "T", " ", "5">>

----------------------------------------------------------------------------
(* Claims about the query string *)

\* the k-th condition that was passed: its keyword, the keyword's parts
\* around "__", and its value
Keyword(k) == fin.conditions[k][1]

KeywordParts(k) == str_split(Keyword(k), <<"_", "_">>)

ConditionValue(k) == fin.conditions[k][2]

\* the operator a suffix stands for
Operators ==
    { <<<<"l", "t">>, <<"<">>>>, <<<<"l", "t", "e">>, <<"<", "=">>>>, <<<<"e", "q">>, <<"=">>>>,
      <<<<"n", "e", "q">>, <<"<", ">">>>>, <<<<"g", "t", "e">>, <<">", "=">>>>, <<<<"g", "t">>, <<">">>>> }

Suffixes == {o[1] : o \in Operators}

OperatorOf(suffix) == (CHOOSE o \in Operators : o[1] = suffix)[2]

\* the keyword is a name, or a name and one of the six suffixes
WellFormed(k) ==
    \/ Len(KeywordParts(k)) = 1
    \/ Len(KeywordParts(k)) = 2 /\ KeywordParts(k)[2] \in Suffixes

NameOf(k) == KeywordParts(k)[1]

SignOf(k) ==
    IF Len(KeywordParts(k)) = 1 THEN <<"=">> ELSE OperatorOf(KeywordParts(k)[2])

\* the words of the k-th term after WHERE
TermName(k) == Words[2 + 4 * k]

TermSign(k) == Words[3 + 4 * k]

TermLiteral(k) == Words[4 + 4 * k]

\* C21: when conditions are passed the query has WHERE followed by one
\* term "name operator literal" for each condition, in the order they were
\* passed and joined by AND; a keyword that is a bare name gives "=", and
\* a suffix lt, lte, eq, neq, gte, gt gives <, <=, =, <>, >=, >; without
\* conditions the query has no WHERE.
C21_WhereClause ==
    (out # NoResult /\ \A k \in 1..Len(fin.conditions) : WellFormed(k)) =>
        LET n == Len(fin.conditions)
        IN /\ out.status = "ok"
           /\ IF n = 0
              THEN \A i \in 1..Len(Words) : Words[i] # <<"W", "H", "E", "R", "E">>
              ELSE /\ Len(Words) >= 4 + 4 * n
                   /\ Words[5] = <<"W", "H", "E", "R", "E">>
                   /\ \A k \in 1..n :
                        /\ TermName(k) = NameOf(k)
                        /\ TermSign(k) = SignOf(k)
                        /\ TermLiteral(k) # <<>>
                        /\ k < n => Words[5 + 4 * k] = <<"A", "N", "D">>
                   /\ Len(Words) > 4 + 4 * n => Words[5 + 4 * n] = <<"L", "I", "M", "I", "T">>

\* two conditions passed against the order of their names
C21_Witness ==
    /\ out.status = "ok"
    /\ Len(fin.conditions) = 2
    /\ Keyword(1) = <<"b", "_", "_", "g", "t">>
    /\ Keyword(2) = <<"a">>
    /\ SubSeq(Words, 5, 11) = <<<<"W", "H", "E", "R", "E">>, <<"b">>, <<">">>, <<"5">>, <<"A", "N", "D">>, <<"a">>, <<"=">>>>

\* C22: a keyword containing "__" whose last part is not one of the six
\* suffixes makes make_query_string raise ValueError and return no
\* query, whatever the other conditions and however many "__" it has.
C22_UnrecognizedOperator ==
    (/\ out # NoResult
     /\ \E k \in 1..Len(fin.conditions) :
            /\ Len(KeywordParts(k)) >= 2
            /\ KeywordParts(k)[Len(KeywordParts(k))] \notin Suffixes) =>
        (out.status = "ValueError" /\ out.text = <<>>)

\* the words after the SELECT, FROM and WHERE parts
Ending ==
    SubSeq(Words, 5 + (IF fin.conditions = <<>> THEN 0 ELSE 4 * Len(fin.conditions)),
           Len(Words))

\* C23: the query ends with LIMIT n exactly when a limit is passed,
\* followed by OFFSET m exactly when an offset is passed too; an offset
\* without a limit adds nothing and raises nothing; both come after WHERE.
C23_LimitOffset ==
    out.status = "ok" =>
        Ending = CASE fin.limit = None -> <<>>
                 [] fin.limit # None /\ fin.offset = None ->
                        <<<<"L", "I", "M", "I", "T">>, str_int(fin.limit.n)>>
                 [] OTHER ->
                        <<<<"L", "I", "M", "I", "T">>, str_int(fin.limit.n),
                          <<"O", "F", "F", "S", "E", "T">>, str_int(fin.offset.n)>>

\* a limit of zero with an offset, after a WHERE
C23_Witness ==
    /\ out.status = "ok"
    /\ fin.limit = PyInt(0)
    /\ fin.offset = PyInt(2)
    /\ fin.conditions # <<>>
    /\ Ending = <<<<"L", "I", "M", "I", "T">>, <<"0">>, <<"O", "F", "F", "S", "E", "T">>, <<"2">>>>

\* the literal is a quoted UTC time of this instant with six digits of
\* fraction
IsUtcLiteral(word, us) ==
    /\ Len(word) = 29
    /\ SubSeq(word, 1, 15) = <<"'", "1", "9", "7", "0", "-", "0", "1", "-", "0", "1", "T", "0", "0", ":">>
    /\ word[18] = ":" /\ word[21] = "."
    /\ SubSeq(word, 28, 29) = <<"Z", "'">>
    /\ \A i \in {16, 17, 19, 20} \cup 22..27 : IsDigit(word[i])
    /\ parse_nat(SubSeq(word, 16, 17)) * 60000000
         + parse_nat(SubSeq(word, 19, 20)) * 1000000
         + parse_nat(SubSeq(word, 22, 27)) = us

\* C24: a condition's value is written between single quotes when it is
\* a string, as null when it is None, as a quoted UTC time with six
\* digits of fraction and Z when it is a datetime (converted from its own
\* zone), and otherwise as its default text: True or False, or the number.
C24_ValueLiteral ==
    out.status = "ok" =>
        \A k \in 1..Len(fin.conditions) :
            LET value == ConditionValue(k)
            IN CASE value.t = "str" -> TermLiteral(k) = <<"'">> \o value.s \o <<"'">>
                 [] value.t = "None" -> TermLiteral(k) = <<"n", "u", "l", "l">>
                 [] value.t = "datetime" -> IsUtcLiteral(TermLiteral(k), value.n)
                 [] value.t = "bool" ->
                        TermLiteral(k) = IF value.n = 1 THEN <<"T", "r", "u", "e">> ELSE <<"F", "a", "l", "s", "e">>
                 [] value.t = "int" -> TermLiteral(k) = str_int(value.n)
                 [] OTHER -> TermLiteral(k) = str(value)

\* a datetime of a zone half an hour east of UTC
C24_Witness ==
    /\ out.status = "ok"
    /\ Len(fin.conditions) >= 1
    /\ ConditionValue(1) = PyDatetimeAt(61000002, HalfHourEast)
    /\ TermLiteral(1) = <<"'", "1", "9", "7", "0", "-", "0", "1", "-", "0", "1", "T", "0", "0", ":", "0", "1", ":", "0", "1", ".", "0", "0", "0", "0", "0", "2", "Z", "'">>

----------------------------------------------------------------------------
(* Claims about derived classes *)

\* the names of a mapping, and its descriptor of a name
NamesOf(mapping) == {mapping[k].name : k \in 1..Len(mapping)}

DescriptorOf(mapping, name) ==
    mapping[CHOOSE k \in 1..Len(mapping) : mapping[k].name = name]

\* the names of the mapping ascend strictly
Ascending(mapping) ==
    \A k \in 1..(Len(mapping) - 1) : str_lt(mapping[k].name, mapping[k + 1].name)

\* the mapping is the union of the base's and the own descriptors, sorted by
\* name, with the own descriptor for a name that both declare
IsMerged(mapping, inherited, own) ==
    /\ NamesOf(mapping) = NamesOf(inherited) \cup NamesOf(own)
    /\ Ascending(mapping)
    /\ \A k \in 1..Len(mapping) :
            mapping[k] = IF mapping[k].name \in NamesOf(own)
                         THEN DescriptorOf(own, mapping[k].name)
                         ELSE DescriptorOf(inherited, mapping[k].name)

\* C25: the tag mapping and the field mapping of a subclass are the union
\* of the base's descriptors and its own, sorted by name, and a name that
\* both declare keeps the descriptor of the subclass.
C25_SubclassMerges ==
    \A i \in 2..Len(classes) :
        /\ IsMerged(classes[i].class.tags_by_attname,
                    classes[classes[i].base].class.tags_by_attname,
                    select_attrs(classes[i].body, {"Tag"}))
        /\ IsMerged(classes[i].class.fields_by_attname,
                    classes[classes[i].base].class.fields_by_attname,
                    select_attrs(classes[i].body, FieldClasses))

\* the view is the union of the names of the two mappings of the class,
\* each once and ascending, with the field's descriptor before the tag's
IsViewOf(view, class) ==
    /\ NamesOf(view) = NamesOf(class.tags_by_attname) \cup NamesOf(class.fields_by_attname)
    /\ Ascending(view)
    /\ \A k \in 1..Len(view) :
            view[k] = IF view[k].name \in NamesOf(class.fields_by_attname)
                      THEN DescriptorOf(class.fields_by_attname, view[k].name)
                      ELSE DescriptorOf(class.tags_by_attname, view[k].name)

\* C26: tags_and_fields of every class, subclasses included, is the union
\* of the names of its tags and fields as they are now, each once,
\* ascending, with the field's descriptor for a name that is both; the view
\* of a subclass has the names it added and is not the view computed
\* before for its base.
C26_ViewIsCurrent ==
    /\ fin # None =>
        /\ IsViewOf(fout, classes[fin.n].class)
        /\ NamesOf(classes[fin.n].body) \subseteq NamesOf(fout)
    /\ \A i \in 1..Len(classes) :
       \A a \in classes[i].attributes : IsViewOf(a[2], classes[i].class)

\* the view of a class that added names is read after the view of its base
\* was stored
C26_Witness ==
    /\ fin # None
    /\ fin.n >= 3
    /\ classes[fin.n].base = 2
    /\ classes[2].attributes # {}
    /\ classes[fin.n].body = BodyX
    /\ classes[2].body = BodyA
    /\ NamesOf(fout) = NamesOf(BodyA)
    /\ DescriptorOf(fout, <<"t", "a", "g", "1">>).class = "StringField"
    /\ fout # getattr(classes, 2, private(kind))

\* C27: no operation (declaring a subclass, constructing, setting a
\* column, encoding, decoding, building a query, reading tags_and_fields)
\* changes the tag mapping or the field mapping of a class declared before.
C27_MappingsFrozen ==
    [][\A i \in 1..Len(classes) :
            /\ Len(classes') >= i
            /\ classes'[i].class = classes[i].class]_vars

\* a subclass of a declared class exists and an object of it was encoded
C27_Witness ==
    /\ Len(classes) = 3
    /\ classes[3].base = 2
    /\ classes[2].body = BodyA
    /\ classes[3].body = BodyO
    /\ cls = classes[3].class
    /\ out.status = "ok"
    /\ NamesOf(classes[2].class.fields_by_attname) = NamesOf(select_attrs(BodyA, FieldClasses))

----------------------------------------------------------------------------
(* Claims about keywords and column lengths *)

\* the columns a table of the class has
ColumnNames == [c \in 1..Len(AllDatums) |-> AllDatums[c].name] \o <<time_name>>

\* the lengths of the lists passed to the constructor for tags, fields and
\* time
GivenLengths ==
    {Len(fin.kwargs[name].items) :
        name \in {d \in DOMAIN fin.kwargs \cap DeclaredNames : fin.kwargs[d].list}}
    \cup (IF fin.time # None THEN {Len(fin.time.s)} ELSE {})

\* every column of the table has the row count of the table
EqualLengths ==
    /\ data_frame.columns = ColumnNames
    /\ \A c \in 1..Len(data_frame.data) : Len(data_frame.data[c]) = len(data_frame)

\* C28: after every construction and column assignment each tag, field and
\* time column of a table has the table's row count; constructing from
\* lists of different lengths raises ValueError, and assigning a list of
\* another length raises ValueError and leaves every column as it was.
C28_ColumnLengths ==
    /\ [](IsTable /\ data_frame # EmptyFrame => EqualLengths)
    /\ [](IsTable /\ fin.op = "__init__" =>
            /\ Cardinality(GivenLengths) > 1 =>
                    (out.status = "ValueError" /\ data_frame = EmptyFrame)
            /\ out.status = "ok" => len(data_frame) \in GivenLengths)
    /\ [][(AssignColumn /\ fin'.value.list
                /\ Len(fin'.value.items) # len(data_frame)) =>
            (out'.status = "ValueError" /\ data_frame' = data_frame)]_vars

\* a list one longer than the table was assigned to a column
C28_Witness ==
    /\ IsTable
    /\ fin.op = "__setitem__"
    /\ fin.value.list
    /\ len(data_frame) = MaxRows
    /\ Len(fin.value.items) = MaxRows + 1
    /\ out.status = "ValueError"

\* name=value of the tags of the Point that are not None, each after a comma
RECURSIVE TagPairs(_)
TagPairs(tags) ==
    IF tags = <<>> THEN <<>>
    ELSE (IF attrs[tags[1].name] # None
          THEN <<",">> \o tags[1].name \o <<"=">> \o Tag_format(attrs[tags[1].name])
          ELSE <<>>)
         \o TagPairs(Tail(tags))

StartsWith(text, prefix) ==
    /\ Len(text) >= Len(prefix)
    /\ SubSeq(text, 1, Len(prefix)) = prefix

\* C29: the line of a Point has, for every tag that is not None, name= and
\* the whole of Tag.format(value), also for a value that ends with a comma
\* and for the last tag: taking away the separator after the last tag takes
\* away no character of an escaped value.
C29_PointTagsWhole ==
    (kind = "Point" /\ fin.op = "to_line_protocol" /\ out.status = "ok") =>
        StartsWith(out.text, cls.measurement \o TagPairs(Tags) \o <<" ">>)

====
